---------------------------- MODULE Spec2Model ----------------------------
(***************************************************************************)
(* A model of nvbandwidth-amd: the pattern fill/verify of a memory node    *)
(* (src/memcpy.cpp), the spin barrier and the copy kernels                 *)
(* (src/kernels.cpp), DeviceNode::enablePeerAcess (src/memcpy.cpp), the    *)
(* scenario driver findTestcase/runTestcase/main (src/nvbandwidth.cpp)     *)
(* and the synchronized group transfer MemcpyOperation::doMemcpy           *)
(* (src/memcpy.cpp).                                                       *)
(*                                                                         *)
(* Number representations.  TLC integers are 32 bit signed, so:            *)
(*   - an `unsigned int' (32 bit) is the set of its one-bits, a subset of  *)
(*     0..31; xor is the symmetric difference, a shift moves the bits;     *)
(*   - an `unsigned long long' (64 bit) is a sequence of 8 limbs of 8      *)
(*     bits, least significant first; + and * wrap at 2^64 as in C;        *)
(*   - byte counts (size_t) below 2^31 are plain integers.                 *)
(***************************************************************************)
EXTENDS Integers, Sequences, FiniteSets, TLC

VARIABLES
    pat,        \* the pattern harness: one buffer, filled, corrupted, compared
    spin,       \* the spin harness: one spinKernel launch and its device loop
    cp,         \* the copy harness: one copy procedure call and its kernel
    peer,       \* the peer-access harness: devices, what is enabled, the last call
    drv,        \* the driver harness: the requested scenarios and what was run
    \* MemcpyOperation::doMemcpy and the devices it drives
    cfg,        \* the run: group, aggregation mode, globals, device attributes
    host,       \* the host thread's position in doMemcpy: pc, loop index i, trial n
    flag,       \* *blockingVar
    streams,    \* streams[i]: the operations queued on pair i's stream
    events,     \* startEvents, endEvents, totalEnd: state and timestamp
    now,        \* device time, in ticks
    dclock,     \* clock64() of the devices, an index into ClockSeq
    mem,        \* the buffer of every memory node
    sizes,      \* finalCopySize[i], adjustedCopySizes[i]
    stats,      \* bandwidthStats[i], totalBandwidth: the samples recorded
    ret,        \* the value doMemcpy returns
    trial       \* per trial: what was synchronized, verified, sampled so far

harnessVars == <<pat, spin, cp, peer, drv>>
opVars == <<cfg, host, flag, streams, events, now, dclock, mem, sizes, stats, ret, trial>>
vars == <<pat, spin, cp, peer, drv, cfg, host, flag, streams, events, now, dclock, mem, sizes, stats,
          ret, trial>>

(***************************************************************************)
(* Bounds of the model (not program constants).                           *)
(***************************************************************************)
\* Words of one pattern chunk.  The program's chunk is 2 MiB (524288 words);
\* the model keeps the chunk structure (full chunks, then a remainder) with a
\* chunk of ChunkWords words.
ChunkWords == 2
\* Buffer sizes of the pattern harness range over 0..MaxPatSize bytes.
MaxPatSize == 21

Min(S) == CHOOSE x \in S : \A y \in S : x <= y
Max(S) == CHOOSE x \in S : \A y \in S : x >= y

RECURSIVE Pow2(_)
Pow2(n) == IF n = 0 THEN 1 ELSE 2 * Pow2(n - 1)

(***************************************************************************)
(* 32-bit unsigned words as sets of bit positions.                         *)
(***************************************************************************)
Bits16(n) == {b \in 0..15 : (n \div Pow2(b)) % 2 = 1}
Word32(hi, lo) == Bits16(lo) \cup {b + 16 : b \in Bits16(hi)}
Xor32(a, b) == (a \ b) \cup (b \ a)
Shl32(a, k) == {b + k : b \in {c \in a : c + k <= 31}}
Shr32(a, k) == {b - k : b \in {c \in a : c >= k}}

RECURSIVE SumBits(_)
SumBits(S) == IF S = {} THEN 0
              ELSE LET b == CHOOSE x \in S : TRUE IN Pow2(b) + SumBits(S \ {b})

\* Byte k (0..3) of a word in memory, little endian.
ByteOf(w, k) == SumBits({b - 8 * k : b \in {c \in w : c \div 8 = k}})

\* sizeof(unsigned int), sizeof(char) * 1024 * 1024 * 2 scaled to ChunkWords.
WordBytes == 4
ChunkBytes == ChunkWords * WordBytes

\* The seeds doMemcpy uses: 0xCAFEBABE (destination), 0xBAADF00D (source).
SeedDst == Word32(51966, 47806)
SeedSrc == Word32(47789, 61453)
\* Seeds of the pattern harness; 17 and 256 give first words that agree in
\* their low byte (0x00462210, 0x04202310).
SeedSet == {SeedDst, SeedSrc, Word32(0, 17), Word32(0, 256), Word32(0, 0),
            Word32(0, 1), Word32(32768, 0)}

(***************************************************************************)
(* MemcpyNode::xorshift2MBPattern                                          *)
(***************************************************************************)
XorshiftStep(oldValue) ==
    LET v1 == Xor32(oldValue, Shl32(oldValue, 13))
        v2 == Xor32(v1, Shr32(v1, 17))
        v3 == Xor32(v2, Shl32(v2, 5))
    IN  v3

RECURSIVE XorshiftWords(_, _)
\* The first n words written to the pattern buffer, as a sequence.
XorshiftWords(seed, n) ==
    IF n = 0 THEN <<>>
    ELSE LET prev == XorshiftWords(seed, n - 1)
             old  == IF n = 1 THEN seed ELSE prev[n - 1]
         IN  Append(prev, XorshiftStep(old))

\* The pattern buffer as bytes, index 0..ChunkBytes-1.
xorshift2MBPattern(seed) ==
    LET words == XorshiftWords(seed, ChunkWords)
    IN  [j \in 0..(ChunkBytes - 1) |-> ByteOf(words[(j \div WordBytes) + 1], j % WordBytes)]

(***************************************************************************)
(* MemcpyNode::memsetPattern.  A buffer is a function from byte offsets    *)
(* 0..cap-1 to bytes.                                                      *)
(***************************************************************************)
\* A faulty memsetPattern: the remainder after the full chunks is not filled.
MemsetNoRemainder(buffer, size, seed) ==
    LET pattern == xorshift2MBPattern(seed)
        chunkCount == size \div ChunkBytes
    IN  [j \in DOMAIN buffer |->
            IF j < chunkCount * ChunkBytes THEN pattern[j % ChunkBytes]
            ELSE buffer[j]]

memsetPattern(buffer, size, seed) ==
    LET pattern == xorshift2MBPattern(seed)
        chunkCount == size \div ChunkBytes
        remaining == size - chunkCount * ChunkBytes
    IN  [j \in DOMAIN buffer |->
            IF j < chunkCount * ChunkBytes
            THEN pattern[j - (j \div ChunkBytes) * ChunkBytes]   \* chunk n = j \div ChunkBytes
            ELSE IF remaining # 0 /\ j < chunkCount * ChunkBytes + remaining
                 THEN pattern[j - chunkCount * ChunkBytes]
                 ELSE buffer[j]]

(***************************************************************************)
(* MemcpyNode::memcmpPattern.  The result is what the call does: it        *)
(* returns (abort = FALSE) or prints an address and an offset and aborts.  *)
(***************************************************************************)
\* memcmp(pattern, devicePattern, len) != 0, devicePattern holding the bytes
\* of the buffer from offset `from'.
MemcmpDiffers(pattern, buffer, from, len) ==
    \E j \in 0..(len - 1) : buffer[from + j] # pattern[j]

\* devicePattern[x] != pattern[x], as unsigned int.
WordDiffers(pattern, buffer, from, x) ==
    \E k \in 0..(WordBytes - 1) :
        buffer[from + x * WordBytes + k] # pattern[x * WordBytes + k]

NoAbort == [abort |-> FALSE, offset |-> 0, address |-> 0]

\* The full chunks n with a word that differs, and the words of the remainder
\* that differ.
BadChunks(pattern, buffer, chunkCount) ==
    {n \in 0..(chunkCount - 1) :
        /\ MemcmpDiffers(pattern, buffer, n * ChunkBytes, ChunkBytes)
        /\ \E x \in 0..(ChunkWords - 1) : WordDiffers(pattern, buffer, n * ChunkBytes, x)}

BadTailWords(pattern, buffer, chunkCount, remaining) ==
    IF remaining # 0 /\ MemcmpDiffers(pattern, buffer, chunkCount * ChunkBytes, remaining)
    THEN {x \in 0..((remaining \div WordBytes) - 1) :
            WordDiffers(pattern, buffer, chunkCount * ChunkBytes, x)}
    ELSE {}

memcmpPattern(base, buffer, size, seed) ==
    LET pattern == xorshift2MBPattern(seed)
        chunkCount == size \div ChunkBytes
        remaining == size - chunkCount * ChunkBytes
        bad == BadChunks(pattern, buffer, chunkCount)
        tail == BadTailWords(pattern, buffer, chunkCount, remaining)
    IN  IF bad # {}
        THEN LET n == Min(bad)
                 x == Min({y \in 0..(ChunkWords - 1) :
                              WordDiffers(pattern, buffer, n * ChunkBytes, y)})
             IN  \* _buffer = buffer + n * chunk when the message is printed
                 [abort |-> TRUE,
                  offset |-> n * ChunkBytes + x * WordBytes,
                  address |-> (base + n * ChunkBytes) + n * ChunkBytes + x * WordBytes]
        ELSE IF tail # {}
        THEN \* here n = chunkCount and _buffer = buffer + chunkCount * chunk
             [abort |-> TRUE,
              offset |-> chunkCount * ChunkBytes + Min(tail) * WordBytes,
              address |-> base + chunkCount * ChunkBytes + Min(tail) * WordBytes]
        ELSE NoAbort

(***************************************************************************)
(* The pattern harness: allocate a buffer of `size' bytes, memsetPattern   *)
(* it, let the environment corrupt one byte, memcmpPattern it.             *)
(***************************************************************************)
PatBase == 4096     \* the buffer's address in the harness

PatIdle == [pc |-> "idle", size |-> 0, buffer |-> <<>>, fillSeed |-> {},
            cmpSeed |-> {}, corrupted |-> -1, result |-> NoAbort]

PatInit ==
    \E size \in 0..MaxPatSize :
        pat = [pc |-> "alloc", size |-> size, buffer |-> [j \in 0..(size - 1) |-> 170],
               fillSeed |-> {}, cmpSeed |-> {}, corrupted |-> -1, result |-> NoAbort]

PatFill ==
    /\ pat.pc = "alloc"
    /\ \E seed \in SeedSet :
        pat' = [pat EXCEPT !.pc = "filled", !.fillSeed = seed,
                           !.buffer = memsetPattern(pat.buffer, pat.size, seed)]
    /\ UNCHANGED <<spin, cp, peer, drv>> /\ UNCHANGED opVars

\* One byte of the buffer changes between the fill and the comparison.
PatCorrupt ==
    /\ pat.pc = "filled"
    /\ pat.corrupted = -1
    /\ \E j \in DOMAIN pat.buffer, flip \in {1, 128} :
        pat' = [pat EXCEPT !.corrupted = j,
                           !.buffer[j] = IF (pat.buffer[j] \div flip) % 2 = 1
                                         THEN pat.buffer[j] - flip
                                         ELSE pat.buffer[j] + flip]
    /\ UNCHANGED <<spin, cp, peer, drv>> /\ UNCHANGED opVars

PatCompare ==
    /\ pat.pc = "filled"
    /\ \E seed \in SeedSet :
        pat' = [pat EXCEPT !.pc = "compared", !.cmpSeed = seed,
                           !.result = memcmpPattern(PatBase, pat.buffer, pat.size, seed)]
    /\ UNCHANGED <<spin, cp, peer, drv>> /\ UNCHANGED opVars

PatNext == PatFill \/ PatCorrupt \/ PatCompare


(***************************************************************************)
(* Claims about the pattern fill and comparison (under SpecPattern).       *)
(***************************************************************************)
\* The byte the regenerated pattern has at offset j of a buffer.
ExpectedByte(seed, j) == xorshift2MBPattern(seed)[j % ChunkBytes]

MismatchOffsets == {j \in 0..(pat.size - 1) : pat.buffer[j] # ExpectedByte(pat.cmpSeed, j)}

\* C4 (as claimed): memcmpPattern aborts if and only if one of the first
\* `size' bytes differs from the regenerated pattern, whatever the size and
\* the position of the byte, and the offset it reports is that of the first
\* mismatching position (the word that holds the first differing byte).
C4_AbortIffMismatch ==
    pat.pc = "compared" =>
        /\ pat.result.abort <=> (MismatchOffsets # {})
        /\ pat.result.abort =>
              pat.result.offset = (Min(MismatchOffsets) \div WordBytes) * WordBytes

\* C5: memsetPattern(buffer, C, S) followed immediately by
\* memcmpPattern(buffer, C, S) reports no mismatch and does not abort, for
\* every size C and seed S.
C5_RoundTrip ==
    (pat.pc = "compared" /\ pat.corrupted = -1 /\ pat.cmpSeed = pat.fillSeed)
        => ~pat.result.abort

C5_Witness ==
    /\ pat.pc = "compared" /\ pat.corrupted = -1 /\ pat.cmpSeed = pat.fillSeed
    /\ pat.size > ChunkBytes /\ pat.size % ChunkBytes # 0
    /\ pat.fillSeed = SeedSrc
    /\ ~pat.result.abort

\* C6 (as claimed): for seeds S1 # S2 and every non-zero size, fill with S1
\* then compare with S2 aborts and reports offset 0.
C6_DiscriminatesEverySize ==
    (pat.pc = "compared" /\ pat.corrupted = -1 /\ pat.cmpSeed # pat.fillSeed
        /\ pat.size # 0)
        => (pat.result.abort /\ pat.result.offset = 0)

\* From one pattern word (4 bytes) on, distinct seeds are told apart at
\* offset 0: the sizes below one word are the ones the remainder loop of
\* memcmpPattern never looks at.
C6_DiscriminatesFromOneWord ==
    (pat.pc = "compared" /\ pat.corrupted = -1 /\ pat.cmpSeed # pat.fillSeed
        /\ pat.size >= WordBytes)
        => (pat.result.abort /\ pat.result.offset = 0)

\* C26 (as claimed): when memcmpPattern reports a mismatch, the address it
\* prints is the buffer's base address plus the offset it prints, whether
\* the mismatch is in the first chunk, a later full chunk or the remainder.
C26_AddressIsBasePlusOffset ==
    (pat.pc = "compared" /\ pat.result.abort)
        => pat.result.address = PatBase + pat.result.offset

(***************************************************************************)
(* 64-bit unsigned arithmetic on 8 limbs of 8 bits, least significant      *)
(* first.                                                                  *)
(***************************************************************************)
LimbCount == 8
LimbBase == 256

RECURSIVE LimbPow(_)
LimbPow(i) == IF i = 0 THEN 1 ELSE LimbBase * LimbPow(i - 1)

\* A non-negative int below 2^31 as unsigned long long.
U64(n) == [i \in 1..LimbCount |-> IF i <= 4 THEN (n \div LimbPow(i - 1)) % LimbBase ELSE 0]
AllOnes64 == [i \in 1..LimbCount |-> LimbBase - 1]      \* ~0ULL
\* 2^k for k a multiple of 8.
U64Pow2Limb(k) == [i \in 1..LimbCount |-> IF i = (k \div 8) + 1 THEN 1 ELSE 0]

RECURSIVE Normalize(_, _, _)
\* Carry propagation over column sums, dropping the carry out of limb 8.
Normalize(cols, i, carry) ==
    IF i > LimbCount THEN <<>>
    ELSE LET t == cols[i] + carry
         IN  <<t % LimbBase>> \o Normalize(cols, i + 1, t \div LimbBase)

U64Add(a, b) == Normalize([i \in 1..LimbCount |-> a[i] + b[i]], 1, 0)

RECURSIVE ColumnSum(_, _, _, _)
ColumnSum(a, b, k, i) ==
    IF i > k THEN 0 ELSE a[i] * b[k - i + 1] + ColumnSum(a, b, k, i + 1)

U64Mul(a, b) == Normalize([k \in 1..LimbCount |-> ColumnSum(a, b, k, 1)], 1, 0)

RECURSIVE GtFrom(_, _, _)
GtFrom(a, b, i) ==
    IF i = 0 THEN FALSE
    ELSE IF a[i] # b[i] THEN a[i] > b[i]
    ELSE GtFrom(a, b, i - 1)

U64Gt(a, b) == GtFrom(a, b, LimbCount)

(***************************************************************************)
(* spinKernel and spinKernelDevice                                         *)
(***************************************************************************)
\* unsigned long long timeoutClocks = clocksPerMs * timeoutMs;
SpinTimeoutClocks(clocksPerMs, timeoutMs) == U64Mul(U64(clocksPerMs), timeoutMs)

\* unsigned long long endTime = clock64() + timeoutClocks;
SpinEndTime(clock, timeoutClocks) == U64Add(clock, timeoutClocks)

\* if (timeoutClocks != ~0ULL && clock64() > endTime) break;
SpinBreaks(clock, timeoutClocks, endTime) ==
    timeoutClocks # AllOnes64 /\ U64Gt(clock, endTime)

\* Clock rates (hipDeviceAttributeClockRate, kHz) and values of the device
\* clock that the harness draws from.
ClockRates == {1, 2, 1410000}
ClockSeq == <<U64(0), U64(1), U64(3), U64(1410000), U64Pow2Limb(40),
              U64Pow2Limb(56), AllOnes64>>
TimeoutSet == {AllOnes64, U64(0), U64(5000)}

SpinIdle == [pc |-> "idle", clocksPerMs |-> 0, timeoutMs |-> U64(0),
             timeoutClocks |-> U64(0), endTime |-> U64(0), clock |-> 1,
             latch |-> 0, exit |-> "none"]

SpinInit ==
    \E c \in 1..Len(ClockSeq) :
        spin = [SpinIdle EXCEPT !.pc = "host", !.clock = c]

\* hipError_t spinKernel(latch, stream, timeoutMs)
SpinLaunch ==
    /\ spin.pc = "host"
    /\ \E rate \in ClockRates, timeoutMs \in TimeoutSet :
        spin' = [spin EXCEPT !.pc = "queued", !.clocksPerMs = rate,
                             !.timeoutMs = timeoutMs,
                             !.timeoutClocks = SpinTimeoutClocks(rate, timeoutMs)]
    /\ UNCHANGED <<pat, cp, peer, drv>> /\ UNCHANGED opVars

\* The instance starts on the device.
SpinBegin ==
    /\ spin.pc = "queued"
    /\ spin' = [spin EXCEPT !.pc = "loop",
                            !.endTime = SpinEndTime(ClockSeq[spin.clock], spin.timeoutClocks)]
    /\ UNCHANGED <<pat, cp, peer, drv>> /\ UNCHANGED opVars

\* One evaluation of the loop condition and body.
SpinIter ==
    /\ spin.pc = "loop"
    /\ spin' = IF spin.latch # 0
               THEN [spin EXCEPT !.pc = "exited", !.exit = "latch"]
               ELSE IF SpinBreaks(ClockSeq[spin.clock], spin.timeoutClocks, spin.endTime)
               THEN [spin EXCEPT !.pc = "exited", !.exit = "timeout"]
               ELSE spin
    /\ UNCHANGED <<pat, cp, peer, drv>> /\ UNCHANGED opVars

\* The device clock advances.
SpinClock ==
    /\ spin.pc \in {"queued", "loop"}
    /\ \E c \in (spin.clock + 1)..Len(ClockSeq) : spin' = [spin EXCEPT !.clock = c]
    /\ UNCHANGED <<pat, cp, peer, drv>> /\ UNCHANGED opVars

\* The host raises the flag.
SpinHostSet ==
    /\ spin.pc \in {"queued", "loop"}
    /\ spin.latch = 0
    /\ spin' = [spin EXCEPT !.latch = 1]
    /\ UNCHANGED <<pat, cp, peer, drv>> /\ UNCHANGED opVars

SpinNext == SpinLaunch \/ SpinBegin \/ SpinIter \/ SpinClock \/ SpinHostSet


\* C2 (as claimed): launched with timeoutMs = ~0 the spin instance never
\* leaves its loop because of the timeout, for every clock rate >= 1 and
\* every value of the device clock.
C2_DisabledTimeoutNeverFires ==
    spin.timeoutMs = AllOnes64 => spin.exit # "timeout"

(***************************************************************************)
(* The copy procedures: MemcpyOperationCE / MemcpyOperationSM              *)
(* (getAdjustedCopySize, memcpyFunc) and copyKernel with its two kernels.  *)
(***************************************************************************)
ElemBytes == 16             \* sizeof(uint4)
MaxBlockThreads == 1024     \* std::min(numUint4, 1024)
PipeDepth == 12             \* chunkSizeInElement / 12
defaultBufferSize == 64     \* MiB
MiB == 1048576              \* _MiB
Threshold == defaultBufferSize * MiB

\* MemcpyOperationCE::getAdjustedCopySize
getAdjustedCopySizeCE(size) == size

\* A faulty getAdjustedCopySize: it rounds up instead of down.
AdjustRoundsUp(size, numSm, numThreadPerBlock) ==
    LET totalThreadCount == numSm * numThreadPerBlock
    IN  IF size < Threshold
        THEN ((size + ElemBytes - 1) \div ElemBytes) * ElemBytes
        ELSE (totalThreadCount * (((size \div ElemBytes) + totalThreadCount - 1)
                                     \div totalThreadCount)) * ElemBytes

\* MemcpyOperationSM::getAdjustedCopySize, totalThreadCount = numSm * numThreadPerBlock
getAdjustedCopySizeSM(size, numSm, numThreadPerBlock) ==
    LET totalThreadCount == numSm * numThreadPerBlock
    IN  IF size < Threshold
        THEN LET numUint4 == size \div ElemBytes
             IN  numUint4 * ElemBytes
        ELSE LET sizeInElement == totalThreadCount * ((size \div ElemBytes) \div totalThreadCount)
             IN  sizeInElement * ElemBytes

\* A faulty memcpyFunc: one copy short.
MemcpyFuncCEOneLess(dst, src, copySize, loopCount) ==
    [ret |-> copySize,
     ops |-> [l \in 1..(loopCount - 1) |->
                [op |-> "memcpy", dst |-> dst, src |-> src, bytes |-> copySize, loops |-> 1]]]

\* MemcpyOperationCE::memcpyFunc: the operations appended to the stream, and
\* the value returned.  The loop counter is an unsigned int; the loop counts
\* of the model are below 2^32.
memcpyFuncCE(dst, src, copySize, loopCount) ==
    [ret |-> copySize,
     ops |-> [l \in 1..loopCount |->
                [op |-> "memcpy", dst |-> dst, src |-> src, bytes |-> copySize, loops |-> 1]]]

\* copyKernel: the set of outcomes (the launch appended to the stream and the
\* value returned).  With numUint4 = 0 the host divides by block.x = 0:
\* undefined behaviour, which traps (crash) or yields a grid of 0 blocks.
copyKernel(dst, src, size, numSm, numThreadPerBlock, loopCount) ==
    LET totalThreadCount == numSm * numThreadPerBlock
    IN  IF size < Threshold
        THEN LET numUint4 == size \div ElemBytes
                 block == IF numUint4 < MaxBlockThreads THEN numUint4 ELSE MaxBlockThreads
                 simple(grid) ==
                    [crash |-> FALSE, ret |-> numUint4 * ElemBytes,
                     ops |-> <<[op |-> "simpleCopyKernel", dst |-> dst, src |-> src,
                                grid |-> grid, block |-> block, loops |-> loopCount]>>]
             IN  IF block = 0
                 THEN {[crash |-> TRUE, ret |-> 0, ops |-> <<>>], simple(0)}
                 ELSE {simple(numUint4 \div block)}
        ELSE LET sizeInElement == totalThreadCount * ((size \div ElemBytes) \div totalThreadCount)
                 chunkSizeInElement == sizeInElement \div totalThreadCount
             IN  {[crash |-> FALSE, ret |-> sizeInElement * ElemBytes,
                   ops |-> <<[op |-> "stridingMemcpyKernel", dst |-> dst, src |-> src,
                              grid |-> numSm, block |-> numThreadPerBlock,
                              totalThreadCount |-> totalThreadCount,
                              chunkSizeInElement |-> chunkSizeInElement,
                              loops |-> loopCount]>>]}

\* MemcpyOperationSM::memcpyFunc
memcpyFuncSM(dst, src, copySize, numSm, numThreadPerBlock, loopCount) ==
    copyKernel(dst, src, copySize, numSm, numThreadPerBlock, loopCount)

\* simpleCopyKernel: thread (blockIdx, threadIdx) copies element
\* blockIdx * blockDim + threadIdx.  Element e is written by the launch k
\* when some thread of the grid has that index.
SimpleKernelWrites(k, e) ==
    /\ k.loops > 0 /\ k.grid > 0 /\ k.block > 0
    /\ LET blockIdx == e \div k.block
           threadIdx == e % k.block
       IN  blockIdx < k.grid /\ threadIdx < k.block

\* stridingMemcpyKernel: thread `from' copies elements from + j * totalThreadCount
\* for j below bigChunk * 12 (the pipelined loop) and then up to
\* chunkSizeInElement (the remainder loop).
StridingKernelWrites(k, e) ==
    /\ k.loops > 0
    /\ LET from == e % k.totalThreadCount
           j == e \div k.totalThreadCount
           bigChunkSizeInElement == k.chunkSizeInElement \div PipeDepth
       IN  /\ from < k.grid * k.block
           /\ \/ j < bigChunkSizeInElement * PipeDepth
              \/ j < k.chunkSizeInElement

KernelWrites(k, e) ==
    IF k.op = "simpleCopyKernel" THEN SimpleKernelWrites(k, e)
    ELSE IF k.op = "stridingMemcpyKernel" THEN StridingKernelWrites(k, e)
    ELSE e * ElemBytes < k.bytes

(***************************************************************************)
(* The copy harness: one device, one stream; getAdjustedCopySize and       *)
(* memcpyFunc are called on a size and a loop count, then the stream runs. *)
(***************************************************************************)
SmSet == {1, 3, 108}            \* hipDeviceAttributeMultiprocessorCount
ThreadsPerBlockSet == {1, 512}  \* numThreadPerBlock
LoopCountSet == {1, 2, 16}

SizesFor(lanes) ==
    LET unit == ElemBytes * lanes
        first == unit * ((Threshold + unit - 1) \div unit)
    IN  {0, 1, 15, 16, 17, 4096, 16384, 16400, 32784, MiB, Threshold - 16,
         Threshold - 1, Threshold, Threshold + 1, Threshold + 16, Threshold + 48,
         first, first + 16, first + unit, first + unit - 1}

CpIdle == [pc |-> "idle", variant |-> "CE", size |-> 0, numSm |-> 1,
           numThreadPerBlock |-> 1, loopCount |-> 1, adjusted |-> 0, ret |-> 0,
           stream |-> <<>>, done |-> <<>>]

CpInit ==
    \E variant \in {"CE", "SM"}, numSm \in SmSet, tpb \in ThreadsPerBlockSet,
       loopCount \in LoopCountSet :
        \E size \in SizesFor(numSm * tpb) :
            cp = [CpIdle EXCEPT !.pc = "start", !.variant = variant, !.size = size,
                                !.numSm = numSm, !.numThreadPerBlock = tpb,
                                !.loopCount = loopCount]

CpAdjust ==
    /\ cp.pc = "start"
    /\ cp' = [cp EXCEPT !.pc = "adjusted",
                        !.adjusted = IF cp.variant = "CE"
                                     THEN getAdjustedCopySizeCE(cp.size)
                                     ELSE getAdjustedCopySizeSM(cp.size, cp.numSm,
                                                                cp.numThreadPerBlock)]
    /\ UNCHANGED <<pat, spin, peer, drv>> /\ UNCHANGED opVars

CpCopyCE ==
    /\ cp.pc = "adjusted" /\ cp.variant = "CE"
    /\ LET r == memcpyFuncCE("dst", "src", cp.size, cp.loopCount)
       IN  cp' = [cp EXCEPT !.pc = "copied", !.ret = r.ret, !.stream = cp.stream \o r.ops]
    /\ UNCHANGED <<pat, spin, peer, drv>> /\ UNCHANGED opVars

CpCopySM ==
    /\ cp.pc = "adjusted" /\ cp.variant = "SM"
    /\ \E r \in memcpyFuncSM("dst", "src", cp.size, cp.numSm, cp.numThreadPerBlock,
                             cp.loopCount) :
        cp' = IF r.crash THEN [cp EXCEPT !.pc = "crashed"]
              ELSE [cp EXCEPT !.pc = "copied", !.ret = r.ret, !.stream = cp.stream \o r.ops]
    /\ UNCHANGED <<pat, spin, peer, drv>> /\ UNCHANGED opVars

\* The device runs the operation at the head of the stream to completion.
CpRun ==
    /\ cp.pc = "copied" /\ cp.stream # <<>>
    /\ cp' = [cp EXCEPT !.stream = Tail(cp.stream), !.done = Append(cp.done, Head(cp.stream))]
    /\ UNCHANGED <<pat, spin, peer, drv>> /\ UNCHANGED opVars

CpNext == CpAdjust \/ CpCopyCE \/ CpCopySM \/ CpRun


\* Element indices at which the copied range is examined.
Probes(n) == {e \in {0, 1, MaxBlockThreads - 1, MaxBlockThreads, n \div 2, n - 2, n - 1} :
                 0 <= e /\ e < n}

\* C7 (as claimed): once the launched kernel has completed, every 16-byte
\* element of the destination at an index below returnedSize / 16 has been
\* copied from the source, on the small and on the large path.
C7_ReturnedBytesCopied ==
    (cp.variant = "SM" /\ cp.pc = "copied" /\ cp.stream = <<>>)
        => \A e \in Probes(cp.ret \div ElemBytes) :
              \E i \in 1..Len(cp.done) : KernelWrites(cp.done[i], e)

\* C8: MemcpyOperationSM::getAdjustedCopySize(size) is at most size, a
\* multiple of 16 and, at or above the default-buffer-size threshold, equal
\* to size when size is a multiple of 16 * laneCount.
C8_AdjustedSizeSM ==
    (cp.variant = "SM" /\ cp.pc # "start") =>
        /\ cp.adjusted <= cp.size
        /\ cp.adjusted % ElemBytes = 0
        /\ (cp.size >= Threshold /\ cp.size % (ElemBytes * cp.numSm * cp.numThreadPerBlock) = 0)
              => cp.adjusted = cp.size

C8_Witness ==
    /\ cp.variant = "SM" /\ cp.pc = "adjusted"
    /\ cp.numSm * cp.numThreadPerBlock > 1
    /\ cp.size > Threshold
    /\ cp.size % (ElemBytes * cp.numSm * cp.numThreadPerBlock) = 0
    /\ cp.adjusted = cp.size

PeerDevCount == 3
MaxPeerCalls == 3
PeerDevs == 0..(PeerDevCount - 1)

\* hipDeviceCanAccessPeer(&canAccessPeer, device, peerDevice).
hipDeviceCanAccessPeer(can, device, peerDevice) ==
    IF <<device, peerDevice>> \in can THEN 1 ELSE 0

\* hipCtxEnablePeerAccess(peerCtx, 0) with `current' the current context:
\* the error code and the pairs enabled afterwards.
hipCtxEnablePeerAccess(can, enabled, current, peerCtx) ==
    IF current = peerCtx
    THEN [res |-> "hipErrorInvalidDevice", enabled |-> enabled]
    ELSE IF <<current, peerCtx>> \notin can
    THEN [res |-> "hipErrorPeerAccessUnsupported", enabled |-> enabled]
    ELSE IF <<current, peerCtx>> \in enabled
    THEN [res |-> "hipErrorPeerAccessAlreadyEnabled", enabled |-> enabled]
    ELSE [res |-> "hipSuccess", enabled |-> enabled \cup {<<current, peerCtx>>}]

\* A faulty check: every error code is fatal.
PeerAssertAlways(res) == res # "hipSuccess"

\* Lines 183-184 and 187-188: if (res != hipErrorPeerAccessAlreadyEnabled)
\* CU_ASSERT(res): the call is fatal.
PeerAssertFails(res) ==
    res # "hipErrorPeerAccessAlreadyEnabled" /\ res # "hipSuccess"

\* Lines 175-193, for device `self' and peerNode `other': the value
\* returned, whether CU_ASSERT ended the process, the pairs enabled, the
\* current context and the error codes of the hipCtxEnablePeerAccess calls.
enablePeerAcess(can, enabled, current, self, other) ==
    IF hipDeviceCanAccessPeer(can, self, other) = 0
    THEN [ret |-> FALSE, fatal |-> FALSE, enabled |-> enabled, current |-> current,
          res |-> <<>>]
    ELSE LET r1 == hipCtxEnablePeerAccess(can, enabled, other, self)
         IN  IF PeerAssertFails(r1.res)
             THEN [ret |-> FALSE, fatal |-> TRUE, enabled |-> r1.enabled,
                   current |-> other, res |-> <<r1.res>>]
             ELSE LET r2 == hipCtxEnablePeerAccess(can, r1.enabled, self, other)
                  IN  IF PeerAssertFails(r2.res)
                      THEN [ret |-> FALSE, fatal |-> TRUE, enabled |-> r2.enabled,
                            current |-> self, res |-> <<r1.res, r2.res>>]
                      ELSE [ret |-> TRUE, fatal |-> FALSE, enabled |-> r2.enabled,
                            current |-> self, res |-> <<r1.res, r2.res>>]

(* The peer-access harness: a system of PeerDevCount devices with any       *)
(* addressability between them; enablePeerAcess is called on any device     *)
(* for any peer, up to MaxPeerCalls times.                                  *)
PeerIdle == [pc |-> "idle", can |-> {}, enabled |-> {}, current |-> 0, calls |-> 0,
             last |-> <<>>]

PeerInit ==
    \E can \in SUBSET {q \in PeerDevs \X PeerDevs : q[1] # q[2]} :
        peer = [pc |-> "ready", can |-> can, enabled |-> {}, current |-> 0, calls |-> 0,
                last |-> <<>>]

PeerCall ==
    /\ peer.pc = "ready" /\ peer.calls < MaxPeerCalls
    /\ \E self \in PeerDevs, other \in PeerDevs :
        LET o == enablePeerAcess(peer.can, peer.enabled, peer.current, self, other)
        IN  peer' = [peer EXCEPT !.pc = IF o.fatal THEN "fatal" ELSE "ready",
                                 !.enabled = o.enabled, !.current = o.current,
                                 !.calls = @ + 1,
                                 !.last = [self |-> self, other |-> other, ret |-> o.ret,
                                           fatal |-> o.fatal, res |-> o.res,
                                           before |-> peer.enabled]]
    /\ UNCHANGED <<pat, spin, cp, drv>> /\ UNCHANGED opVars

PeerNext == PeerCall

\* C14: enablePeerAcess is idempotent.  When the two devices can access each
\* other, every call (in either direction, however many came before) returns
\* true and none is fatal; when they cannot, the call returns false, is not
\* fatal and makes no attempt to enable anything.
C14_EnablePeerIdempotent ==
    peer.calls > 0 =>
        LET l == peer.last
            fwd == <<l.self, l.other>> \in peer.can
            bwd == <<l.other, l.self>> \in peer.can
        IN  /\ (fwd /\ bwd) => (l.ret /\ ~l.fatal)
            /\ (~fwd /\ ~bwd) =>
                    (~l.ret /\ ~l.fatal /\ l.res = <<>> /\ peer.enabled = l.before)

\* A call for a pair whose access was already enabled in both directions.
C14_Witness ==
    /\ peer.calls >= 2 /\ peer.last.ret
    /\ peer.last.res = <<"hipErrorPeerAccessAlreadyEnabled",
                         "hipErrorPeerAccessAlreadyEnabled">>

(***************************************************************************)
(* The scenario driver: findTestcase, runTestcase and main's loop.         *)
(***************************************************************************)
(* A string is a sequence of characters.  The catalog is the sequence of   *)
(* the scenarios' keys; entry k of the code (counted from 0) is element     *)
(* k + 1.  filter[k + 1] is what the scenario's filter() returns.           *)
MaxRequests == 2
TestKeys == << <<"a">>, <<"b">> >>
IdSet == { <<>>, <<"0">>, <<"1">>, <<"2">>, <<"-", "1">>, <<"1", "a">>,
           <<"a">>, <<"b">>, <<"c">> }

DigitChars == {"0", "1", "2"}
DigitValue(c) == IF c = "0" THEN 0 ELSE IF c = "1" THEN 1 ELSE 2

\* The number of digits of str from position k on.
RECURSIVE DigitRun(_, _)
DigitRun(str, k) ==
    IF k <= Len(str) /\ str[k] \in DigitChars THEN 1 + DigitRun(str, k + 1) ELSE 0

\* The value of the decimal digits str[from..to].
RECURSIVE DecValue(_, _, _)
DecValue(str, from, to) ==
    IF to < from THEN 0
    ELSE 10 * DecValue(str, from, to - 1) + DigitValue(str[to])

\* strtol(id.c_str(), &p, 10): an optional sign, then the longest run of
\* digits.  `rest' is what p points at: the whole string when there is no
\* digit to convert (the value is then 0).
strtol(str) ==
    LET signLen == IF str # <<>> /\ str[1] \in {"-", "+"} THEN 1 ELSE 0
        n == DigitRun(str, signLen + 1)
        magnitude == DecValue(str, signLen + 1, signLen + n)
    IN  IF n = 0 THEN [value |-> 0, rest |-> str]
        ELSE [value |-> IF signLen = 1 /\ str[1] = "-" THEN 0 - magnitude ELSE magnitude,
              rest |-> SubSeq(str, signLen + n + 1, Len(str))]

\* Lines 76-93.  `index >= testcases.size()' compares a long with a size_t:
\* the long is converted to unsigned, so a negative index is out of bound.
findTestcase(testcases, id) ==
    LET c == strtol(id)
    IN  IF c.rest # <<>>
        THEN IF \E k \in DOMAIN testcases : testcases[k] = id
             THEN [found |-> TRUE,
                   index |-> (CHOOSE k \in DOMAIN testcases :
                                /\ testcases[k] = id
                                /\ \A j \in 1..(k - 1) : testcases[j] # id) - 1]
             ELSE [found |-> FALSE, index |-> 0]
        ELSE IF c.value < 0 \/ c.value >= Len(testcases)
        THEN [found |-> FALSE, index |-> 0]
        ELSE [found |-> TRUE, index |-> c.value]

\* Lines 95-114: what the call does: the error is reported, the scenario is
\* waived, or it is run.
runTestcase(testcases, filter, testcaseID) ==
    LET t == findTestcase(testcases, testcaseID)
    IN  IF ~t.found THEN <<"error">>
        ELSE IF ~filter[t.index + 1] THEN <<"waived", t.index>>
        ELSE <<"ran", t.index>>

(* The driver harness: main's loop over the requested scenarios, or over    *)
(* the whole catalog when none is requested.                                *)
DrvIdle == [pc |-> "idle", testcases |-> <<>>, filter |-> <<>>, toRun |-> <<>>,
            k |-> 0, out |-> <<>>]

DrvInit ==
    \E n \in 0..MaxRequests :
        \E toRun \in [1..n -> IdSet], filter \in [DOMAIN TestKeys -> BOOLEAN] :
            drv = [pc |-> "loop", testcases |-> TestKeys, filter |-> filter,
                   toRun |-> toRun, k |-> 1, out |-> <<>>]

\* Lines 208-212: testcasesToRun is empty: every scenario of the catalog.
DrvRunAll ==
    /\ drv.pc = "loop" /\ drv.toRun = <<>> /\ drv.k <= Len(drv.testcases)
    /\ drv' = [drv EXCEPT !.k = @ + 1,
                          !.out = Append(@, runTestcase(drv.testcases, drv.filter,
                                                        drv.testcases[drv.k]))]
    /\ UNCHANGED <<pat, spin, cp, peer>> /\ UNCHANGED opVars

\* Lines 213-216: the next requested scenario.
DrvRunRequested ==
    /\ drv.pc = "loop" /\ drv.toRun # <<>> /\ drv.k <= Len(drv.toRun)
    /\ drv' = [drv EXCEPT !.k = @ + 1,
                          !.out = Append(@, runTestcase(drv.testcases, drv.filter,
                                                        drv.toRun[drv.k]))]
    /\ UNCHANGED <<pat, spin, cp, peer>> /\ UNCHANGED opVars

\* Lines 219-221: the loop is over.
DrvExit ==
    /\ drv.pc = "loop"
    /\ drv.k > (IF drv.toRun = <<>> THEN Len(drv.testcases) ELSE Len(drv.toRun))
    /\ drv' = [drv EXCEPT !.pc = "exit"]
    /\ UNCHANGED <<pat, spin, cp, peer>> /\ UNCHANGED opVars

DrvNext == DrvRunAll \/ DrvRunRequested \/ DrvExit

\* A request names a catalog entry: it is the key of a scenario, or a
\* decimal number below the size of the catalog.
IsNumber(id) == id # <<>> /\ \A k \in DOMAIN id : id[k] \in DigitChars
NamesEntry(id) ==
    \/ \E k \in DOMAIN TestKeys : TestKeys[k] = id
    \/ IsNumber(id) /\ DecValue(id, 1, Len(id)) < Len(TestKeys)

\* C15: a request that names no catalog entry is a recoverable failure: for
\* that request runTestcase reports an error and runs no scenario, and the
\* loop goes on to every later request, in order.
C15_UnresolvedIsRecoverable ==
    /\ \A j \in DOMAIN drv.out :
            (drv.toRun # <<>> /\ ~NamesEntry(drv.toRun[j])) => drv.out[j] = <<"error">>
    /\ (drv.pc = "exit" /\ drv.toRun # <<>>) => Len(drv.out) = Len(drv.toRun)

(***************************************************************************)
(* MemcpyOperation::doMemcpy: one host thread, one stream per pair, and    *)
(* the devices that run the streams.                                       *)
(*                                                                         *)
(* Pair i of the model (1..n) is index i - 1 of the code.  A stream is the *)
(* sequence of operations queued on it; the device runs the operation at   *)
(* its head.  A copy at the head of a stream is executing: it needs `rem'  *)
(* more ticks of device time, and all executing copies advance together.   *)
(***************************************************************************)
WARMUP_COUNT == 4
\* Ticks of device time per microsecond (the resolution of the event timers).
TicksPerUs == 2
\* Group sizes 1..MaxPairs and sample counts (averageLoopCount) 1..MaxSamples.
MaxPairs == 2
MaxSamples == 2
\* Ticks one copy of a pair's buffer takes: 1..MaxLat, chosen per trial.
MaxLat == 2
\* Places of a trial at which the host may be delayed while it enqueues.
MaxHostLag == 1

\* spinKernel's default timeoutMs (kernels.h): ~0, the timeout disabled.
DefaultTimeoutMs == AllOnes64

Modes == {"PER_PAIR", "SUM_BW", "TOTAL_BW"}
OpClockRates == {1, 1410000}
OpLoopCounts == {1, 2}
BufSizes == {16}
\* The statistic's reduction: the median (useMean is false unless requested).
UseMeanSet == {FALSE}
\* Values of the device clock, as indices into ClockSeq: 0 and 1410000 cycles.
OpClocks == {1, 4}

Pairs == 1..cfg.n

\* HostNode::getPrimaryCtx / DeviceNode::getPrimaryCtx
NullCtx == <<"nullptr", 0>>
getPrimaryCtx(node) == IF node.kind = "host" THEN NullCtx ELSE <<"ctx", node.dev>>

\* doMemcpy has not returned a value.
NoReturn == [bytesPerSecond |-> 0, exp10 |-> 0]

\* The group of a host-to-device run over n devices: pair i copies host
\* buffer 2i-1 to the buffer 2i of device i-1.  The context current when
\* doMemcpy is entered (entryCtx) is the one the last constructor made
\* current (lines 124 and 153): a node's constructor always sets one.
GroupNodes(n, size) ==
    [e \in 1..(2 * n) |->
        IF e % 2 = 1 THEN [kind |-> "host", dev |-> 0, size |-> size]
        ELSE [kind |-> "device", dev |-> (e \div 2) - 1, size |-> size]]

NoEvent == [st |-> "none", t |-> 0]

OpIdle ==
    /\ cfg = [n |-> 0] /\ host = [pc |-> "idle", i |-> 0, n |-> 0] /\ flag = 0
    /\ streams = <<>> /\ events = <<>> /\ now = 0 /\ dclock = 1 /\ mem = <<>>
    /\ sizes = <<>> /\ stats = <<>> /\ ret = NoReturn /\ trial = <<>>

\* queued[i] is what the host has queued on stream i in the trial, ran[i] the
\* repeats of the warmup and of the timed copy that stream i has completed,
\* flagWrites the values the host has written to the flag, filled the pairs
\* whose endpoints the host has filled.
NewTrial == [synced |-> {}, verified |-> {}, sampled |-> {}, totalSampled |-> FALSE,
             filled |-> {},
             corrupted |-> FALSE, lat |-> <<>>, lag |-> 0, at |-> <<>>, idle |-> FALSE,
             queued |-> [i \in Pairs |-> <<>>],
             ran |-> [i \in Pairs |-> [warmup |-> 0, timed |-> 0]],
             flagWrites |-> <<>>]

OpInit ==
    /\ \E n \in 1..MaxPairs, mode \in Modes, skip \in BOOLEAN, variant \in {"CE", "SM"},
          samples \in 1..MaxSamples, loopCount \in OpLoopCounts, rate \in OpClockRates,
          useMean \in UseMeanSet, size \in BufSizes :
        /\ cfg = [n |-> n, bandwidthValue |-> mode, skipVerification |-> skip,
                  variant |-> variant, averageLoopCount |-> samples,
                  loopCount |-> loopCount, clocksPerMs |-> rate, useMean |-> useMean,
                  ctxPreference |-> "PREFER_SRC_CONTEXT", numSm |-> 2,
                  numThreadPerBlock |-> 2,
                  nodes |-> GroupNodes(n, size),
                  entryCtx |-> <<"ctx", n - 1>>,
                  src |-> [i \in 1..n |-> 2 * i - 1],
                  dst |-> [i \in 1..n |-> 2 * i]]
        /\ mem = [e \in 1..(2 * n) |-> [j \in 0..(size - 1) |-> 0]]
        /\ streams = [i \in 1..n |-> <<>>]
        /\ events = [start |-> [i \in 1..n |-> NoEvent], end |-> [i \in 1..n |-> NoEvent],
                     total |-> NoEvent]
        /\ sizes = [final |-> [i \in 1..n |-> 0], adjusted |-> [i \in 1..n |-> 0],
                    contexts |-> [i \in 1..n |-> NullCtx],
                    streamCtx |-> [i \in 1..n |-> NullCtx]]
        /\ stats = [pair |-> [i \in 1..n |-> <<>>], total |-> <<>>, sampleLines |-> 0]
    /\ host = [pc |-> "setup", i |-> 1, n |-> 0]
    /\ flag = 0 /\ now = 0 /\ dclock = 1 /\ ret = NoReturn
    /\ trial = [NewTrial EXCEPT !.lat = [i \in Pairs |-> 1]]

(* ------------------------- groups of any shape ------------------------ *)
\* The constructors of the endpoints: HostNode(bufferSize, targetDeviceId)
\* and DeviceNode(bufferSize, deviceIdx).
HostNode(bufferSize) == [kind |-> "host", dev |-> 0, size |-> bufferSize]
DeviceNode(bufferSize, deviceIdx) == [kind |-> "device", dev |-> deviceIdx, size |-> bufferSize]

\* Capacities of the endpoints of these groups, in bytes.
GroupSizes == {16, 32}

\* The context preferences: the one the code names, and any other value of
\* the enumeration.
CtxPreferences == {"PREFER_SRC_CONTEXT", "PREFER_DST_CONTEXT"}

\* doMemcpy(srcNode, dstNode): a group of one pair (lines 206-210).
OnePair(srcNode, dstNode) ==
    [nodes |-> <<srcNode, dstNode>>, src |-> <<1>>, dst |-> <<2>>]

\* doMemcpy(srcNodes, dstNodes) on two pairs: of four endpoints, of three
\* endpoints of which the middle one is the destination of pair 0 and the
\* source of pair 1, and of three endpoints with one source for both pairs.
TwoPairs(s0, d0, s1, d1) == [nodes |-> <<s0, d0, s1, d1>>, src |-> <<1, 3>>, dst |-> <<2, 4>>]
Chain(a, b, c) == [nodes |-> <<a, b, c>>, src |-> <<1, 2>>, dst |-> <<2, 3>>]
FanOut(a, b, c) == [nodes |-> <<a, b, c>>, src |-> <<1, 1>>, dst |-> <<2, 3>>]

Groups ==
    LET ends == {HostNode(c) : c \in GroupSizes} \cup {DeviceNode(c, 0) : c \in GroupSizes}
    IN  {OnePair(s, d) : s \in ends, d \in ends}
        \cup {TwoPairs(HostNode(a), DeviceNode(a, 0), HostNode(b), DeviceNode(b, 1)) :
                    a \in GroupSizes, b \in GroupSizes}
        \cup {Chain(DeviceNode(16, 0), DeviceNode(16, 1), DeviceNode(16, 2)),
              FanOut(DeviceNode(16, 0), DeviceNode(16, 1), DeviceNode(16, 2))}

\* Every endpoint of the group has the same capacity.
EqualCapacities(g) == \A e, f \in DOMAIN g.nodes : g.nodes[e].size = g.nodes[f].size

\* doMemcpy is entered with a group of any of these shapes, either context
\* preference and either copy procedure, for one sample in TOTAL mode.  The
\* clock rate that makes the spin timeout wrap is drawn for the groups of
\* equal capacities only: with the other rate the barrier holds until the
\* host releases it, so that no copy runs between endpoints of unequal
\* capacities.  The device clock reads any value when doMemcpy is entered
\* (it matters with that rate only).
OpInitGroup ==
    /\ \E g \in Groups, pref \in CtxPreferences, variant \in {"CE", "SM"},
          rate \in OpClockRates, clock \in OpClocks :
        /\ rate # 1 => EqualCapacities(g)
        /\ rate = 1 => clock = 1
        /\ dclock = clock
        /\ cfg = [n |-> Len(g.src), bandwidthValue |-> "TOTAL_BW", skipVerification |-> FALSE,
                  variant |-> variant, averageLoopCount |-> 1,
                  loopCount |-> 1, clocksPerMs |-> rate, useMean |-> FALSE,
                  ctxPreference |-> pref, numSm |-> 2,
                  numThreadPerBlock |-> 2,
                  nodes |-> g.nodes,
                  entryCtx |-> <<"ctx", 0>>,
                  src |-> g.src,
                  dst |-> g.dst]
        /\ mem = [e \in DOMAIN g.nodes |-> [j \in 0..(g.nodes[e].size - 1) |-> 0]]
        /\ streams = [i \in DOMAIN g.src |-> <<>>]
        /\ events = [start |-> [i \in DOMAIN g.src |-> NoEvent],
                     end |-> [i \in DOMAIN g.src |-> NoEvent], total |-> NoEvent]
        /\ sizes = [final |-> [i \in DOMAIN g.src |-> 0],
                    adjusted |-> [i \in DOMAIN g.src |-> 0],
                    contexts |-> [i \in DOMAIN g.src |-> NullCtx],
                    streamCtx |-> [i \in DOMAIN g.src |-> NullCtx]]
        /\ stats = [pair |-> [i \in DOMAIN g.src |-> <<>>], total |-> <<>>, sampleLines |-> 0]
    /\ host = [pc |-> "setup", i |-> 1, n |-> 0]
    /\ flag = 0 /\ now = 0 /\ ret = NoReturn
    /\ trial = [NewTrial EXCEPT !.lat = [i \in Pairs |-> 1]]

(* ---------------- the copy procedure of the operation ---------------- *)
\* getAdjustedCopySize of the operation's class.
getAdjustedCopySize(size) ==
    IF cfg.variant = "CE" THEN getAdjustedCopySizeCE(size)
    ELSE getAdjustedCopySizeSM(size, cfg.numSm, cfg.numThreadPerBlock)

\* memcpyFunc of the operation's class: its outcomes.
memcpyFunc(dst, src, copySize, loopCount) ==
    IF cfg.variant = "CE"
    THEN {[crash |-> FALSE] @@ memcpyFuncCE(dst, src, copySize, loopCount)}
    ELSE memcpyFuncSM(dst, src, copySize, cfg.numSm, cfg.numThreadPerBlock, loopCount)

IsCopy(o) == o.op \in {"memcpy", "simpleCopyKernel", "stridingMemcpyKernel"}

\* The operations as queued on pair i's stream: each needs loops * lat ticks.
Timed(ops, i) == [k \in DOMAIN ops |-> ops[k] @@ [rem |-> ops[k].loops * trial.lat[i]]]

\* The copies of a memcpyFunc call, marked as the warmup or the timed copy.
Phase(ops, phase) == [k \in DOMAIN ops |-> ops[k] @@ [phase |-> phase]]

\* The destination buffer once the copy o has completed.
CopyResult(o, m) ==
    [j \in DOMAIN m[o.dst] |->
        IF j \in DOMAIN m[o.src] /\ KernelWrites(o, j \div ElemBytes)
              /\ (o.op = "memcpy" => j < o.bytes)
        THEN m[o.src][j] ELSE m[o.dst][j]]

(* ------------------------- streams and events ------------------------- *)
HeadIs(i, kind) == streams[i] # <<>> /\ Head(streams[i]).op = kind

EventOf(ev) == IF ev[1] = "start" THEN events.start[ev[2]]
               ELSE IF ev[1] = "end" THEN events.end[ev[2]]
               ELSE events.total

Running(i) == streams[i] # <<>> /\ IsCopy(Head(streams[i])) /\ Head(streams[i]).rem > 0

\* The device can complete the operation at the head of stream i now.
Ready(i) ==
    /\ streams[i] # <<>>
    /\ LET o == Head(streams[i])
       IN  \/ o.op = "record"
           \/ o.op = "wait" /\ EventOf(o.ev).st = "done"
           \/ o.op = "spin" /\ (~o.began \/ flag # 0
                                 \/ SpinBreaks(ClockSeq[dclock], o.timeoutClocks, o.endTime))
           \/ IsCopy(o) /\ o.rem = 0

\* The host is still enqueueing while the timed region of the trial has
\* begun on the device: the time the host takes is part of what is measured.
Elapsing ==
    /\ host.pc \in {"startI", "copy", "total", "release"}
    /\ events.start[1].st = "done"

\* Where the host is in the trial.
HostAt == <<host.pc, host.i>>

\* The host takes its next step.  The devices complete what they can
\* complete at once before the host is looked at again (their steps take no
\* device time and commute with the host's), and a delay of the host, once
\* begun, lasts until the devices have no copy left to execute.
HostFree ==
    /\ \A i \in Pairs : ~Ready(i)
    /\ ~(trial.at = HostAt /\ \E i \in Pairs : Running(i))

(* ------------------------------ the host ------------------------------ *)
\* Lines 228-234: the context chosen for a pair.  contexts[i] is an element
\* of a std::vector<hipCtx_t> constructed with a size: it is null until it is
\* assigned, and no branch assigns it when neither condition holds.
SelectCtx(ctxPreference, srcNode, dstNode) ==
    IF ctxPreference = "PREFER_SRC_CONTEXT" /\ getPrimaryCtx(srcNode) # NullCtx
    THEN getPrimaryCtx(srcNode)
    ELSE IF getPrimaryCtx(dstNode) # NullCtx
    THEN getPrimaryCtx(dstNode)
    ELSE NullCtx

\* The context that is current once iteration i of the loop of lines
\* 226-244 has chosen: hipCtxSetCurrent is called only when a context is
\* chosen, otherwise the context that was current before stays current.
RECURSIVE CurrentAfter(_)
CurrentAfter(i) ==
    IF i = 0 THEN cfg.entryCtx
    ELSE LET c == SelectCtx(cfg.ctxPreference, cfg.nodes[cfg.src[i]], cfg.nodes[cfg.dst[i]])
         IN  IF c # NullCtx THEN c ELSE CurrentAfter(i - 1)

\* Lines 226-246: contexts, streams, events, finalCopySize.  The stream of
\* pair i is created (line 237) in the context that is current then.
HostSetup ==
    /\ host.pc = "setup"
    /\ sizes' = [sizes EXCEPT
            !.contexts = [i \in Pairs |->
                SelectCtx(cfg.ctxPreference, cfg.nodes[cfg.src[i]], cfg.nodes[cfg.dst[i]])],
            !.streamCtx = [i \in Pairs |-> CurrentAfter(i)],
            !.final = [i \in Pairs |-> getAdjustedCopySize(cfg.nodes[cfg.src[1]].size)]]
    /\ host' = [host EXCEPT !.pc = IF cfg.averageLoopCount > 0 THEN "reset" ELSE "cleanup"]
    /\ UNCHANGED <<harnessVars, cfg, flag, streams, events, now, dclock, mem, stats, ret, trial>>

\* A faulty reset: the flag is set, not cleared.
FlagSetAtReset(previous) == 1

\* Line 250: the value written to *blockingVar at the start of a trial,
\* whatever it held before.
FlagAtReset(previous) == 0

\* Line 250: *blockingVar = 0.  The devices' copy latencies of the trial are
\* drawn here, and device time is counted from the start of the trial: only
\* differences of event times within a trial are ever taken, and every
\* event is recorded again in the trial before it is waited for or read, so
\* the times of the trial before are dropped.
HostReset ==
    /\ host.pc = "reset"
    /\ flag' = FlagAtReset(flag)
    /\ \E lat \in [Pairs -> 1..MaxLat] :
            trial' = [NewTrial EXCEPT !.lat = lat, !.flagWrites = <<FlagAtReset(flag)>>]
    /\ now' = 0
    /\ events' = [start |-> [i \in Pairs |-> NoEvent], end |-> [i \in Pairs |-> NoEvent],
                  total |-> NoEvent]
    /\ host' = [host EXCEPT !.pc = "fill", !.i = 1]
    /\ UNCHANGED <<harnessVars, cfg, streams, dclock, mem, sizes, stats, ret>>

\* A faulty loop: pair i's spin kernel is launched as soon as pair i is
\* filled, the later pairs are not filled before it.
LaunchAfterEachFill(i, n) == <<"launch", i>>

\* Lines 252-257: the fill loop runs over every pair before the launch loop
\* begins.  Where the host goes once pair i is filled.
AfterFill(i, n) == IF i < n THEN <<"fill", i + 1>> ELSE <<"launch", 1>>

\* finalCopySize[i] exceeds the capacity of an endpoint of pair i: the fill
\* and the verification of the pair run past the end of the allocation.
FillOverflows(i) ==
    \/ sizes.final[i] > cfg.nodes[cfg.dst[i]].size
    \/ sizes.final[i] > cfg.nodes[cfg.src[i]].size

\* Lines 253-254: fill pair i's destination, then its source.  memsetPattern
\* returns after hipCtxSynchronize (line 54): the fill is a blocking call.
\* A fill past the end of an allocation is undefined: the copy faults, or
\* the bytes past the end land outside the buffers of the group.
HostFill ==
    /\ host.pc = "fill" /\ HostFree
    /\ \/ /\ LET i == host.i
                  d == cfg.dst[i]
                  s == cfg.src[i]
                  m1 == [mem EXCEPT ![d] = memsetPattern(mem[d], sizes.final[i], SeedDst)]
              IN  mem' = [m1 EXCEPT ![s] = memsetPattern(m1[s], sizes.final[i], SeedSrc)]
          /\ host' = [host EXCEPT !.pc = AfterFill(host.i, cfg.n)[1],
                                  !.i = AfterFill(host.i, cfg.n)[2]]
          /\ trial' = [trial EXCEPT !.filled = @ \cup {host.i}]
       \/ /\ FillOverflows(host.i)
          /\ host' = [host EXCEPT !.pc = "crashed"]
          /\ UNCHANGED <<mem, trial>>
    /\ UNCHANGED <<harnessVars, cfg, flag, streams, events, now, dclock, sizes, stats, ret>>

SpinOp == [op |-> "spin",
           timeoutClocks |-> SpinTimeoutClocks(cfg.clocksPerMs, DefaultTimeoutMs),
           began |-> FALSE, endTime |-> U64(0), flagAtLaunch |-> flag]

\* Lines 258-264: the spin kernel, then the warmup copy, on pair i's stream.
HostLaunch ==
    /\ host.pc = "launch" /\ HostFree
    /\ LET i == host.i
       IN  \E r \in memcpyFunc(cfg.dst[i], cfg.src[i], cfg.nodes[cfg.src[i]].size,
                               WARMUP_COUNT) :
            IF r.crash
            THEN /\ host' = [host EXCEPT !.pc = "crashed"]
                 /\ streams' = [streams EXCEPT ![i] = @ \o <<SpinOp>>]
                 /\ trial' = [trial EXCEPT !.queued[i] = @ \o <<SpinOp>>]
            ELSE LET ops == <<SpinOp>> \o Timed(Phase(r.ops, "warmup"), i)
                 IN  /\ streams' = [streams EXCEPT ![i] = @ \o ops]
                     /\ trial' = [trial EXCEPT !.queued[i] = @ \o ops]
                     /\ host' = IF i < cfg.n THEN [host EXCEPT !.i = @ + 1]
                                ELSE [host EXCEPT !.pc = "start0", !.i = 1]
    /\ UNCHANGED <<harnessVars, cfg, flag, events, now, dclock, mem, sizes, stats, ret>>

RecordOp(ev) == [op |-> "record", ev |-> ev]
WaitOp(ev) == [op |-> "wait", ev |-> ev]
Pending == [st |-> "pending", t |-> 0]

\* Lines 267-268: hipEventRecord(startEvents[0], streams[0]).
HostStart0 ==
    /\ host.pc = "start0" /\ HostFree
    /\ streams' = [streams EXCEPT ![1] = Append(@, RecordOp(<<"start", 1>>))]
    /\ trial' = [trial EXCEPT !.queued[1] = Append(@, RecordOp(<<"start", 1>>))]
    /\ events' = [events EXCEPT !.start[1] = Pending]
    /\ host' = IF cfg.n > 1 THEN [host EXCEPT !.pc = "startI", !.i = 2]
               ELSE [host EXCEPT !.pc = "copy", !.i = 1]
    /\ UNCHANGED <<harnessVars, cfg, flag, now, dclock, mem, sizes, stats, ret>>

\* A stream waits for its own start event before it records it (a cycle in
\* the wait graph).
StartOpsWaitSelf(i) == <<WaitOp(<<"start", i>>), RecordOp(<<"start", i>>)>>

\* A faulty start: stream i records its start event without the wait.
StartOpsNoWait(i) == <<RecordOp(<<"start", i>>)>>

\* Lines 272-273: hipStreamWaitEvent(streams[i], startEvents[0]), then
\* hipEventRecord(startEvents[i], streams[i]).
StartOps(i) == <<WaitOp(<<"start", 1>>), RecordOp(<<"start", i>>)>>

\* Lines 271-273: stream i waits for startEvents[0], then records startEvents[i].
HostStartI ==
    /\ host.pc = "startI" /\ HostFree
    /\ LET i == host.i
       IN  /\ streams' = [streams EXCEPT ![i] = @ \o StartOps(i)]
           /\ trial' = [trial EXCEPT !.queued[i] = @ \o StartOps(i)]
           /\ events' = [events EXCEPT !.start[i] = Pending]
           /\ host' = IF i < cfg.n THEN [host EXCEPT !.i = @ + 1]
                      ELSE [host EXCEPT !.pc = "copy", !.i = 1]
    /\ UNCHANGED <<harnessVars, cfg, flag, now, dclock, mem, sizes, stats, ret>>

\* A faulty order: the end event is recorded before the timed copy.
EndBeforeCopy(copies, i) == <<RecordOp(<<"end", i>>)>> \o copies

\* Lines 279-280: memcpyFunc(..., loopCount), then hipEventRecord(endEvents[i]).
TimedRegion(copies, i) == copies \o <<RecordOp(<<"end", i>>)>>

\* A faulty total: stream 0 does not wait for the other pairs' end events.
NoEndWaitOps(mode, i) == <<>>

\* Lines 281-283: in TOTAL mode stream 0 waits for endEvents[i], i # 0.
EndWaitOps(mode, i) ==
    IF mode = "TOTAL_BW" /\ i # 1 THEN <<WaitOp(<<"end", i>>)>> ELSE <<>>

\* Lines 277-284: the assertion, the timed copy, the end event and, in TOTAL
\* mode, stream 0's wait for it.
HostCopy ==
    /\ host.pc = "copy" /\ HostFree
    /\ LET i == host.i
       IN  IF cfg.nodes[cfg.src[i]].size # cfg.nodes[cfg.dst[i]].size
           THEN /\ host' = [host EXCEPT !.pc = "assertFailed"]
                /\ UNCHANGED <<streams, events, sizes, trial>>
           ELSE \E r \in memcpyFunc(cfg.dst[i], cfg.src[i], cfg.nodes[cfg.src[i]].size,
                                    cfg.loopCount) :
                IF r.crash
                THEN /\ host' = [host EXCEPT !.pc = "crashed"]
                     /\ UNCHANGED <<streams, events, sizes, trial>>
                ELSE /\ sizes' = [sizes EXCEPT !.adjusted[i] = r.ret]
                     /\ events' = [events EXCEPT !.end[i] = Pending]
                     /\ LET ops == TimedRegion(Timed(Phase(r.ops, "timed"), i), i)
                            waits == EndWaitOps(cfg.bandwidthValue, i)
                            s1 == [streams EXCEPT ![i] = @ \o ops]
                            q1 == [trial.queued EXCEPT ![i] = @ \o ops]
                        IN  /\ streams' = [s1 EXCEPT ![1] = @ \o waits]
                            /\ trial' = [trial EXCEPT !.queued = [q1 EXCEPT ![1] = @ \o waits]]
                     /\ host' = IF i < cfg.n THEN [host EXCEPT !.i = @ + 1]
                                ELSE [host EXCEPT !.pc = "total", !.i = 1]
    /\ UNCHANGED <<harnessVars, cfg, flag, now, dclock, mem, stats, ret>>

\* Lines 288-289: hipEventRecord(totalEnd, streams[0]).
HostTotal ==
    /\ host.pc = "total" /\ HostFree
    /\ streams' = [streams EXCEPT ![1] = Append(@, RecordOp(<<"total", 1>>))]
    /\ trial' = [trial EXCEPT !.queued[1] = Append(@, RecordOp(<<"total", 1>>))]
    /\ events' = [events EXCEPT !.total = Pending]
    /\ host' = [host EXCEPT !.pc = "release"]
    /\ UNCHANGED <<harnessVars, cfg, flag, now, dclock, mem, sizes, stats, ret>>

\* Line 292: *blockingVar = 1.
HostRelease ==
    /\ host.pc = "release" /\ HostFree
    /\ flag' = 1
    /\ host' = [host EXCEPT !.pc = "sync", !.i = 1]
    /\ trial' = [trial EXCEPT !.lag = 0, !.at = <<>>, !.idle = FALSE,
                             !.flagWrites = Append(@, 1)]
    /\ UNCHANGED <<harnessVars, cfg, streams, events, now, dclock, mem, sizes, stats, ret>>

\* A faulty branch: the verification is always skipped.
AfterSyncNoVerify(skipVerification) == "stats"

\* Line 298: the verification is skipped when skipVerification is set.
AfterSync(skipVerification) == IF ~skipVerification THEN "verify" ELSE "stats"

\* Lines 294-296: hipStreamSynchronize(streams[i]) returns once the stream is empty.
HostSync ==
    /\ host.pc = "sync" /\ HostFree
    /\ streams[host.i] = <<>>
    /\ trial' = [trial EXCEPT !.synced = @ \cup {host.i}]
    /\ host' = IF host.i < cfg.n THEN [host EXCEPT !.i = @ + 1]
               ELSE [host EXCEPT !.pc = AfterSync(cfg.skipVerification), !.i = 1]
    /\ UNCHANGED <<harnessVars, cfg, flag, streams, events, now, dclock, mem, sizes, stats, ret>>

\* Line 300: memcmpPattern of pair i's destination; a mismatch aborts.  A
\* comparison past the end of the allocation is undefined once the full
\* chunks inside it have matched: it faults, aborts on what it reads there,
\* or passes.
HostVerify ==
    /\ host.pc = "verify"
    /\ LET i == host.i
           cap == cfg.nodes[cfg.dst[i]].size
           inside == IF sizes.final[i] <= cap THEN sizes.final[i]
                     ELSE (cap \div ChunkBytes) * ChunkBytes
           r == memcmpPattern(0, mem[cfg.dst[i]], inside, SeedSrc)
           next == IF i < cfg.n THEN [host EXCEPT !.i = @ + 1]
                   ELSE [host EXCEPT !.pc = "stats", !.i = 1]
       IN  /\ trial' = [trial EXCEPT !.verified = @ \cup {i}]
           /\ IF r.abort THEN host' = [host EXCEPT !.pc = "aborted"]
              ELSE IF sizes.final[i] <= cap THEN host' = next
              ELSE host' \in {[host EXCEPT !.pc = "crashed"],
                              [host EXCEPT !.pc = "aborted"], next}
    /\ UNCHANGED <<harnessVars, cfg, flag, streams, events, now, dclock, mem, sizes, stats, ret>>

\* hipEventElapsedTime in microseconds, as (unsigned long long) elapsedInUs.
ElapsedUs(startEv, endEv) == (endEv.t - startEv.t) \div TicksPerUs

\* (bytes * loopCount * 1000ull * 1000ull) / elapsedUs: the outcomes.  A zero
\* divisor is undefined behaviour: the division traps, or yields 0.
BandwidthOutcomes(bytes, loopCount, elapsedUs) ==
    IF elapsedUs = 0 THEN {[crash |-> TRUE, bw |-> 0], [crash |-> FALSE, bw |-> 0]}
    ELSE {[crash |-> FALSE, bw |-> (bytes * loopCount * 1000 * 1000) \div elapsedUs]}

\* The enumerators of BandwidthValue (memcpy.h), in the order in which the
\* aggregation modes are listed.
BandwidthValueOf(mode) ==
    IF mode = "PER_PAIR" THEN 0 ELSE IF mode = "SUM_BW" THEN 1 ELSE 2

\* Line 311: bandwidthValue == SUM_BW || TOTAL_BW || i == 0, for pair i
\* (counted from 1).  The middle operand is the enumerator itself.
PrintsSample(mode, i) ==
    \/ BandwidthValueOf(mode) = BandwidthValueOf("SUM_BW")
    \/ BandwidthValueOf("TOTAL_BW") # 0
    \/ i = 1

\* Lines 304-316: pair i's sample, and its "Sample" line on the verbose stream.
HostStats ==
    /\ host.pc = "stats"
    /\ LET i == host.i
       IN  \E b \in BandwidthOutcomes(sizes.adjusted[i], cfg.loopCount,
                                      ElapsedUs(events.start[i], events.end[i])) :
            IF b.crash
            THEN /\ host' = [host EXCEPT !.pc = "crashed"]
                 /\ UNCHANGED <<stats, trial>>
            ELSE /\ stats' = [stats EXCEPT !.pair[i] = Append(@, b.bw),
                                          !.sampleLines = IF PrintsSample(cfg.bandwidthValue, i)
                                                          THEN @ + 1 ELSE @]
                 /\ trial' = [trial EXCEPT !.sampled = @ \cup {i}]
                 /\ host' = IF i < cfg.n THEN [host EXCEPT !.i = @ + 1]
                            ELSE [host EXCEPT !.pc = "totalStats", !.i = 1]
    /\ UNCHANGED <<harnessVars, cfg, flag, streams, events, now, dclock, mem, sizes, ret>>

RECURSIVE SumSeq(_)
SumSeq(q) == IF q = <<>> THEN 0 ELSE Head(q) + SumSeq(Tail(q))

NextTrial == IF host.n + 1 < cfg.averageLoopCount
             THEN [host EXCEPT !.pc = "reset", !.i = 1, !.n = @ + 1]
             ELSE [host EXCEPT !.pc = "cleanup", !.i = 1, !.n = @ + 1]

\* Lines 318-334: the total sample in TOTAL mode; then the next trial.
HostTotalStats ==
    /\ host.pc = "totalStats"
    /\ IF cfg.bandwidthValue = "TOTAL_BW"
       THEN \E b \in BandwidthOutcomes(SumSeq(sizes.adjusted), cfg.loopCount,
                                       ElapsedUs(events.start[1], events.total)) :
                IF b.crash
                THEN /\ host' = [host EXCEPT !.pc = "crashed"]
                     /\ UNCHANGED <<stats, trial>>
                ELSE /\ stats' = [stats EXCEPT !.total = Append(@, b.bw),
                                              !.sampleLines = @ + 1]
                     /\ trial' = [trial EXCEPT !.totalSampled = TRUE]
                     /\ host' = NextTrial
       ELSE /\ host' = NextTrial
            /\ UNCHANGED <<stats, trial>>
    /\ UNCHANGED <<harnessVars, cfg, flag, streams, events, now, dclock, mem, sizes, ret>>

(* PerformanceStatistic::returnAppropriateMetric: the mean or the median of
   the samples, by useMean (in whole bytes per second). *)
Kth(q, k) ==
    CHOOSE v \in {q[j] : j \in DOMAIN q} :
        /\ Cardinality({j \in DOMAIN q : q[j] < v}) < k
        /\ Cardinality({j \in DOMAIN q : q[j] <= v}) >= k

returnAppropriateMetric(q, useMean) ==
    IF q = <<>> THEN 0
    ELSE IF useMean THEN SumSeq(q) \div Len(q)
    ELSE IF Len(q) % 2 = 1 THEN Kth(q, (Len(q) + 1) \div 2)
    ELSE (Kth(q, Len(q) \div 2) + Kth(q, (Len(q) \div 2) + 1)) \div 2

\* A value in bytes per second times 1e-9.
ScaleGB(x) == [bytesPerSecond |-> x, exp10 |-> -9]
AddGB(a, b) == [bytesPerSecond |-> a.bytesPerSecond + b.bytesPerSecond, exp10 |-> -9]

RECURSIVE SumGB(_, _)
SumGB(pairStats, useMean) ==
    IF pairStats = <<>> THEN [bytesPerSecond |-> 0, exp10 |-> -9]
    ELSE AddGB(ScaleGB(returnAppropriateMetric(Head(pairStats), useMean)),
               SumGB(Tail(pairStats), useMean))

\* A faulty return: pair 0's statistic in every mode.
ReturnPairZero(mode, pairStats, totalStat, useMean) ==
    ScaleGB(returnAppropriateMetric(pairStats[1], useMean))

\* Lines 348-358: the value returned, by aggregation mode.
ReturnValue(mode, pairStats, totalStat, useMean) ==
    IF mode = "SUM_BW" THEN SumGB(pairStats, useMean)
    ELSE IF mode = "TOTAL_BW" THEN ScaleGB(returnAppropriateMetric(totalStat, useMean))
    ELSE ScaleGB(returnAppropriateMetric(pairStats[1], useMean))

\* Lines 337-358: cleanup and return.
HostReturn ==
    /\ host.pc = "cleanup"
    /\ ret' = ReturnValue(cfg.bandwidthValue, stats.pair, stats.total, cfg.useMean)
    /\ host' = [host EXCEPT !.pc = "done"]
    /\ UNCHANGED <<harnessVars, cfg, flag, streams, events, now, dclock, mem, sizes, stats, trial>>

(* ----------------------------- the devices ---------------------------- *)
\* spinKernelDevice starts: endTime = clock64() + timeoutClocks.
DevSpinBegin(i) ==
    /\ HeadIs(i, "spin") /\ ~Head(streams[i]).began
    /\ streams' = [streams EXCEPT ![i][1] =
            [@ EXCEPT !.began = TRUE,
                      !.endTime = SpinEndTime(ClockSeq[dclock],
                                              Head(streams[i]).timeoutClocks)]]
    /\ UNCHANGED <<harnessVars, cfg, host, flag, events, now, dclock, mem, sizes, stats, ret, trial>>

\* spinKernelDevice leaves its loop: the latch is set, or the timeout breaks.
DevSpinExit(i) ==
    /\ HeadIs(i, "spin") /\ Head(streams[i]).began
    /\ \/ flag # 0
       \/ SpinBreaks(ClockSeq[dclock], Head(streams[i]).timeoutClocks,
                     Head(streams[i]).endTime)
    /\ streams' = [streams EXCEPT ![i] = Tail(@)]
    /\ UNCHANGED <<harnessVars, cfg, host, flag, events, now, dclock, mem, sizes, stats, ret, trial>>

\* The device clock advances while a spin instance with a timeout reads it.
DevClock ==
    /\ \E i \in Pairs : /\ HeadIs(i, "spin") /\ Head(streams[i]).began /\ flag = 0
                        /\ Head(streams[i]).timeoutClocks # AllOnes64
    /\ \E c \in OpClocks : c > dclock /\ dclock' = c
    /\ UNCHANGED <<harnessVars, cfg, host, flag, streams, events, now, mem, sizes, stats, ret, trial>>

\* An event record completes: the event takes the device time.
DevRecord(i) ==
    /\ HeadIs(i, "record")
    /\ LET ev == Head(streams[i]).ev
           done == [st |-> "done", t |-> now]
       IN  events' = IF ev[1] = "start" THEN [events EXCEPT !.start[ev[2]] = done]
                     ELSE IF ev[1] = "end" THEN [events EXCEPT !.end[ev[2]] = done]
                     ELSE [events EXCEPT !.total = done]
    /\ streams' = [streams EXCEPT ![i] = Tail(@)]
    /\ UNCHANGED <<harnessVars, cfg, host, flag, now, dclock, mem, sizes, stats, ret, trial>>

\* hipStreamWaitEvent completes once the event's record has completed.
DevWait(i) ==
    /\ HeadIs(i, "wait")
    /\ EventOf(Head(streams[i]).ev).st = "done"
    /\ streams' = [streams EXCEPT ![i] = Tail(@)]
    /\ UNCHANGED <<harnessVars, cfg, host, flag, events, now, dclock, mem, sizes, stats, ret, trial>>

\* One tick of device time: every executing copy advances.  The device does
\* not idle: time passes only when no stream has an operation to complete.
\* While the host is blocked in a synchronize time passes as long as a copy
\* executes.  While it is still enqueueing the trial it is delayed at no more
\* than MaxHostLag places, and a delay lasts until the device has drained
\* what is queued.
Tick ==
    /\ \A i \in Pairs : ~Ready(i)
    /\ \E i \in Pairs : Running(i)
    /\ IF host.pc = "sync" \/ trial.at = HostAt THEN trial' = trial
       ELSE /\ trial.lag < MaxHostLag
            /\ trial' = [trial EXCEPT !.lag = @ + 1, !.at = HostAt]
    /\ now' = now + 1
    /\ streams' = [i \in Pairs |->
            IF Running(i) THEN [streams[i] EXCEPT ![1].rem = @ - 1] ELSE streams[i]]
    /\ UNCHANGED <<harnessVars, cfg, host, flag, events, dclock, mem, sizes, stats, ret>>

\* The host is delayed by a microsecond while the device has nothing left to
\* execute and the timed region of the trial has begun.
IdleDelay ==
    /\ Elapsing
    /\ \A i \in Pairs : ~Ready(i) /\ ~Running(i)
    /\ ~trial.idle
    /\ trial.at = HostAt \/ trial.lag < MaxHostLag
    /\ trial' = [trial EXCEPT !.lag = IF trial.at = HostAt THEN @ ELSE @ + 1,
                             !.at = HostAt, !.idle = TRUE]
    /\ now' = now + TicksPerUs
    /\ UNCHANGED <<harnessVars, cfg, host, flag, streams, events, dclock, mem, sizes, stats, ret>>

\* A copy completes: the destination holds what the copy wrote.
DevCopyDone(i) ==
    /\ streams[i] # <<>> /\ IsCopy(Head(streams[i])) /\ Head(streams[i]).rem = 0
    /\ mem' = [mem EXCEPT ![Head(streams[i]).dst] = CopyResult(Head(streams[i]), mem)]
    /\ streams' = [streams EXCEPT ![i] = Tail(@)]
    /\ trial' = LET o == Head(streams[i])
                IN  IF o.phase = "warmup"
                    THEN [trial EXCEPT !.ran[i].warmup = @ + o.loops]
                    ELSE [trial EXCEPT !.ran[i].timed = @ + o.loops]
    /\ UNCHANGED <<harnessVars, cfg, host, flag, events, now, dclock, sizes, stats, ret>>

\* A byte of a destination changes after the copies and before the
\* verification (a fault of the transfer path).
Corrupt ==
    /\ host.pc = "sync" /\ host.i = cfg.n /\ streams[cfg.n] = <<>>
    /\ ~trial.corrupted
    /\ \E i \in Pairs : \E j \in {0, sizes.final[i] - 1} :
        /\ j \in DOMAIN mem[cfg.dst[i]]
        /\ mem' = [mem EXCEPT ![cfg.dst[i]][j] = (@ + 1) % 256]
    /\ trial' = [trial EXCEPT !.corrupted = TRUE]
    /\ UNCHANGED <<harnessVars, cfg, host, flag, streams, events, now, dclock, sizes, stats, ret>>

HostNext ==
    \/ HostSetup \/ HostReset \/ HostFill \/ HostLaunch \/ HostStart0 \/ HostStartI
    \/ HostCopy \/ HostTotal \/ HostRelease \/ HostSync \/ HostVerify \/ HostStats
    \/ HostTotalStats \/ HostReturn

DevNext ==
    \/ \E i \in Pairs : DevSpinBegin(i)
    \/ \E i \in Pairs : DevSpinExit(i)
    \/ \E i \in Pairs : DevRecord(i)
    \/ \E i \in Pairs : DevWait(i)
    \/ \E i \in Pairs : DevCopyDone(i)
    \/ DevClock
    \/ Tick
    \/ IdleDelay

OpNext == HostNext \/ DevNext \/ Corrupt

\* What the device of stream i can complete at once.
DevStep(i) ==
    /\ i \in Pairs
    /\ \/ DevSpinBegin(i) \/ DevSpinExit(i) \/ DevRecord(i) \/ DevWait(i)
       \/ DevCopyDone(i)

\* The host thread can take its next step: it is blocked only in
\* hipStreamSynchronize, until the stream is empty (and, in this model, while
\* HostFree keeps it back); it has no step once doMemcpy is over.
HostCanStep ==
    \/ host.pc \in {"setup", "reset", "verify", "stats", "totalStats", "cleanup"}
    \/ host.pc \in {"fill", "launch", "start0", "startI", "copy", "total", "release"}
            /\ HostFree
    \/ host.pc = "sync" /\ HostFree /\ streams[host.i] = <<>>

\* A step of the host thread, as a change of its position (every action of
\* HostNext changes host, and no other action does).
HostMove ==
    /\ HostCanStep
    /\ host' \in {[pc |-> p, i |-> i, n |-> n] :
                    p \in {"reset", "fill", "launch", "start0", "startI", "copy", "total",
                           "release", "sync", "verify", "stats", "totalStats", "cleanup",
                           "done", "aborted", "crashed", "assertFailed"},
                    i \in 1..MaxPairs, n \in 0..MaxSamples} \ {host}

\* Fair scheduling: the host thread runs when it can, every device
\* completes what it can complete, and device time passes while a copy
\* executes.  Nothing is assumed of the device clock reaching a timeout, of
\* the host being delayed, or of a fault of the transfer path.
Fairness ==
    /\ WF_host(HostMove)
    /\ \A i \in 1..MaxPairs : WF_vars(DevStep(i))
    /\ WF_vars(Tick)


(***************************************************************************)
(* Claims about doMemcpy (under Spec).                                     *)
(***************************************************************************)
\* A copy (warmup or timed) is executing on stream i: the spin instance
\* queued before it has left the stream.
CopyExecuting(i) == streams[i] # <<>> /\ IsCopy(Head(streams[i]))

\* C1 (as claimed): in every trial no copy queued on a stream behind the spin
\* instance begins executing before the host has set the flag to 1.
C1_NoCopyBeforeRelease ==
    \A i \in Pairs : CopyExecuting(i) => flag = 1

\* The destination of pair i holds the source pattern over the verified range.
DstHoldsSource(i) ==
    \A j \in 0..(sizes.final[i] - 1) :
        j \in DOMAIN mem[cfg.dst[i]] => mem[cfg.dst[i]][j] = ExpectedByte(SeedSrc, j)

\* C3: with verification enabled a destination is verified only once the host
\* has synchronized on every stream, every destination is verified before a
\* sample of the trial is recorded, and a trial whose destination mismatches
\* records no sample (the run aborts); with verification disabled nothing is
\* verified.
C3_VerifyAfterSyncBeforeSamples ==
    /\ trial.verified # {} =>
            /\ ~cfg.skipVerification
            /\ trial.synced = Pairs
            /\ \A i \in Pairs : streams[i] = <<>>
    /\ cfg.skipVerification => trial.verified = {} /\ host.pc # "aborted"
    /\ (~cfg.skipVerification /\ (trial.sampled # {} \/ trial.totalSampled)) =>
            /\ trial.verified = Pairs
            /\ \A i \in Pairs : DstHoldsSource(i)
    /\ host.pc = "aborted" =>
            /\ trial.sampled = {} /\ ~trial.totalSampled
            /\ \E i \in trial.verified : ~DstHoldsSource(i)
            /\ \A i \in Pairs : Len(stats.pair[i]) = host.n
            /\ Len(stats.total) <= host.n

\* Both outcomes of a verified trial of a two-pair group: every destination
\* was verified and the samples recorded.
C3_Witness ==
    /\ cfg.n = 2 /\ ~cfg.skipVerification
    /\ trial.verified = Pairs /\ trial.sampled = Pairs /\ trial.synced = Pairs
    /\ host.n = 1

\* C10: the value doMemcpy returns is, by aggregation mode, the reduced
\* statistic of pair 0 (PER_PAIR), the sum over the pairs of each pair's
\* reduced statistic (SUM), or the reduced group statistic (TOTAL), each
\* scaled by 1e-9.
C10_ReturnByMode ==
    host.pc = "done" =>
        LET reduced == [i \in Pairs |-> returnAppropriateMetric(stats.pair[i], cfg.useMean)]
        IN  /\ ret.exp10 = -9
            /\ cfg.bandwidthValue = "PER_PAIR" => ret.bytesPerSecond = reduced[1]
            /\ cfg.bandwidthValue = "SUM_BW" => ret.bytesPerSecond = SumSeq(reduced)
            /\ cfg.bandwidthValue = "TOTAL_BW" =>
                    ret.bytesPerSecond = returnAppropriateMetric(stats.total, cfg.useMean)

\* A two-pair SUM run has returned, and the sum differs from pair 0's value.
C10_Witness ==
    /\ host.pc = "done" /\ cfg.n = 2 /\ cfg.bandwidthValue = "SUM_BW"
    /\ cfg.averageLoopCount = 2
    /\ ret.bytesPerSecond > returnAppropriateMetric(stats.pair[1], cfg.useMean)
    /\ returnAppropriateMetric(stats.pair[1], cfg.useMean) > 0


\* C11: for a group of one pair the value returned is pair 0's reduced
\* statistic scaled by 1e-9 in every aggregation mode, so TOTAL, SUM and
\* PER_PAIR return the same value for the same device timings.
C11_OnePairSameValue ==
    (host.pc = "done" /\ cfg.n = 1) =>
        ret = ScaleGB(returnAppropriateMetric(stats.pair[1], cfg.useMean))

\* The longest of the pairs' elapsed times (end event minus start event).
MaxPairElapsedUs ==
    CHOOSE e \in {ElapsedUs(events.start[i], events.end[i]) : i \in Pairs} :
        \A i \in Pairs : ElapsedUs(events.start[i], events.end[i]) <= e

SameLatency == \A i, j \in Pairs : trial.lat[i] = trial.lat[j]

\* C12: when every stream of the group has the same copy latency, the
\* sample recorded in TOTAL mode for a trial is the sum of the adjusted copy
\* sizes times loopCount divided by the longest per-pair elapsed time of the
\* trial.
C12_TotalOverLongestPair ==
    (cfg.bandwidthValue = "TOTAL_BW" /\ trial.totalSampled /\ SameLatency
        /\ MaxPairElapsedUs > 0) =>
        stats.total[Len(stats.total)] =
            (SumSeq(sizes.adjusted) * cfg.loopCount * 1000 * 1000) \div MaxPairElapsedUs

\* C13: in PER_PAIR mode each trial writes a "Sample" line for pair 0 only,
\* so a run of S samples has written exactly S "Sample" lines when doMemcpy
\* returns, whatever the size of the group.
C13_PerPairSampleLines ==
    (host.pc = "done" /\ cfg.bandwidthValue = "PER_PAIR") =>
        stats.sampleLines = cfg.averageLoopCount

\* C16: in every trial, for every pair i >= 1 (here i >= 2), stream i's
\* start event is recorded only after pair 0's start event of the trial has
\* completed: no timed copy begins before pair 0's start event, and
\* start_i >= start_0, whatever the order or the delay of the host.
TimedCopyBegun(i) ==
    \/ trial.ran[i].timed > 0
    \/ /\ streams[i] # <<>> /\ IsCopy(Head(streams[i]))
       /\ Head(streams[i]).phase = "timed"
       /\ Head(streams[i]).rem < Head(streams[i]).loops * trial.lat[i]

C16_StartAfterStartZero ==
    \A i \in Pairs :
        /\ events.start[i].st = "done" =>
                /\ events.start[1].st = "done"
                /\ events.start[i].t >= events.start[1].t
        /\ TimedCopyBegun(i) => events.start[1].st = "done"

\* Pair 1's start event completes strictly after pair 0's: its stream was
\* still in its warmup when pair 0's start event completed.
C16_Witness ==
    /\ cfg.n = 2 /\ events.start[2].st = "done"
    /\ events.start[2].t > events.start[1].t

\* C17: in TOTAL mode the total-completion event completes no earlier than
\* the end event of every pair of the trial, so
\* totalEnd - start_0 >= end_i - start_i for every pair i.
C17_TotalCoversEveryPair ==
    (cfg.bandwidthValue = "TOTAL_BW" /\ events.total.st = "done") =>
        \A i \in Pairs :
            /\ events.end[i].st = "done" /\ events.start[i].st = "done"
            /\ events.total.t >= events.end[i].t
            /\ events.total.t - events.start[1].t >= events.end[i].t - events.start[i].t

\* The total event of a two-pair TOTAL trial has completed, and pair 1 ended
\* after pair 0.
C17_Witness ==
    /\ cfg.bandwidthValue = "TOTAL_BW" /\ cfg.n = 2 /\ events.total.st = "done"
    /\ events.end[2].t > events.end[1].t

\* The place of an operation in the order of a stream: the spin instance,
\* the warmup copy, the start event, the timed copy, the end event.  Waits
\* and the total event have none.
Rank(o, i) ==
    IF o.op = "spin" THEN 1
    ELSE IF IsCopy(o) THEN (IF o.phase = "warmup" THEN 2 ELSE 4)
    ELSE IF o.op = "record" /\ o.ev = <<"start", i>> THEN 3
    ELSE IF o.op = "record" /\ o.ev = <<"end", i>> THEN 5
    ELSE 0

RECURSIVE LoopsOf(_, _)
LoopsOf(q, phase) ==
    IF q = <<>> THEN 0
    ELSE (IF IsCopy(Head(q)) /\ Head(q).phase = phase THEN Head(q).loops ELSE 0)
         + LoopsOf(Tail(q), phase)

\* The host has queued the whole trial on every stream.
AllQueued == host.pc \in {"release", "sync", "verify", "stats", "totalStats"}

\* C18: on every stream and in every trial the order queued is the spin
\* instance, the warmup copy (WARMUP_COUNT repeats), the start event, the
\* timed copy (loopCount repeats), the end event; so when the start event
\* completes the warmup is over and no timed repeat has begun, and when the
\* end event completes exactly loopCount timed repeats have run; no pattern
\* fill happens once anything is queued.
C18_StreamOrder ==
    \A i \in Pairs :
        LET q == trial.queued[i]
            ranked == {k \in DOMAIN q : Rank(q[k], i) > 0}
        IN  /\ \A a, b \in ranked : a < b => Rank(q[a], i) <= Rank(q[b], i)
            /\ \A r \in {1, 3, 5} : Cardinality({k \in ranked : Rank(q[k], i) = r}) <= 1
            /\ AllQueued =>
                    /\ \A r \in {1, 3, 5} : \E k \in ranked : Rank(q[k], i) = r
                    /\ LoopsOf(q, "warmup") = WARMUP_COUNT
                    /\ LoopsOf(q, "timed") = cfg.loopCount
            /\ events.start[i].st = "done" => trial.ran[i].warmup = WARMUP_COUNT
            /\ events.start[i].st # "done" => ~TimedCopyBegun(i)
            /\ events.end[i].st = "done" => trial.ran[i].timed = cfg.loopCount
            /\ host.pc = "fill" => q = <<>>

\* A stream between its start event and its end event, in the middle of a
\* timed copy of two repeats.
C18_Witness ==
    \E i \in Pairs :
        /\ events.start[i].st = "done" /\ events.end[i].st = "pending"
        /\ cfg.loopCount = 2 /\ TimedCopyBegun(i) /\ trial.ran[i].timed < 2

\* The host is between the reset of the flag and its release.
Enqueueing ==
    host.pc \in {"fill", "launch", "start0", "startI", "copy", "total", "release"}

\* C19: in every trial the host writes the flag exactly twice: 0 before any
\* spin instance of the trial is launched, then 1 once everything of the
\* trial is queued on every stream; the devices never write it (it holds
\* what the host wrote last); it is 0 whenever a spin instance is launched.
C19_FlagProtocol ==
    /\ Enqueueing => (trial.flagWrites = <<0>> /\ flag = 0)
    /\ AllQueued /\ host.pc # "release" => (trial.flagWrites = <<0, 1>> /\ flag = 1)
    /\ host.pc \in {"launch", "start0", "startI", "copy", "total", "release", "sync"} =>
            \A i \in Pairs : \A k \in DOMAIN trial.queued[i] :
                trial.queued[i][k].op = "spin" => trial.queued[i][k].flagAtLaunch = 0
    /\ (AllQueued /\ host.pc # "release") =>
            \A i \in Pairs : \E k \in DOMAIN trial.queued[i] :
                trial.queued[i][k] = RecordOp(<<"end", i>>)

\* The second trial of a run has been released.
C19_Witness ==
    /\ host.pc = "sync" /\ host.n = 1 /\ trial.flagWrites = <<0, 1>> /\ cfg.n = 2
    /\ \A i \in Pairs : streams[i] # <<>>

\* doMemcpy is over: it has returned, or the process has ended on a fatal
\* path (a verification mismatch, a trap).
Terminated == host.pc \in {"done", "aborted", "crashed", "assertFailed"}

SpinLaunched == \E i \in Pairs : trial.queued[i] # <<>>

\* The last value the host wrote to the flag in the trial is 0.
BarrierHeld == trial.flagWrites # <<>> /\ trial.flagWrites[Len(trial.flagWrites)] = 0

\* C21: within a trial the host makes no blocking call (a pattern fill, a
\* verification, a stream synchronize) between the launch of the first spin
\* kernel and the write of 1 to the flag; every pair has been filled when
\* the first spin kernel is launched; and a blocking fill or verification
\* is made only when no stream holds work.
C21_NoBlockingBehindBarrier ==
    /\ (SpinLaunched /\ BarrierHeld) =>
            /\ host.pc \notin {"fill", "sync", "verify"}
            /\ trial.filled = Pairs
    /\ host.pc \in {"fill", "verify"} => \A i \in Pairs : streams[i] = <<>>

\* Both pairs are filled, their spin kernels, warmups and timed copies are
\* queued behind the barrier, and the host is about to write 1 to the flag.
C21_Witness ==
    /\ host.pc = "release" /\ cfg.n = 2 /\ flag = 0 /\ BarrierHeld
    /\ trial.filled = {1, 2}
    /\ \A i \in Pairs : HeadIs(i, "spin")

\* The ticks between two recorded events: what hipEventElapsedTime measures.
ElapsedTicks(startEv, endEv) == endEv.t - startEv.t

\* The sample computed from `bytes' moved in the measured interval is well
\* defined, positive and the floor of bytes * loopCount * 10^6 / elapsedUs.
WellDefinedSample(bytes, startEv, endEv) ==
    /\ ElapsedUs(startEv, endEv) # 0
    /\ \A b \in BandwidthOutcomes(bytes, cfg.loopCount, ElapsedUs(startEv, endEv)) :
            /\ ~b.crash
            /\ b.bw > 0
            /\ b.bw * ElapsedUs(startEv, endEv) <= bytes * cfg.loopCount * 1000000
            /\ (b.bw + 1) * ElapsedUs(startEv, endEv) > bytes * cfg.loopCount * 1000000

\* C27 (as claimed): in every trial whose measured elapsed time is positive,
\* each bandwidth sample (a pair's, and the total in TOTAL mode) is well
\* defined and positive: the division is never by zero.
C27_SampleWellDefined ==
    /\ (host.pc = "stats" /\ ElapsedTicks(events.start[host.i], events.end[host.i]) > 0)
            => WellDefinedSample(sizes.adjusted[host.i], events.start[host.i],
                                 events.end[host.i])
    /\ (host.pc = "totalStats" /\ cfg.bandwidthValue = "TOTAL_BW"
            /\ ElapsedTicks(events.start[1], events.total) > 0)
            => WellDefinedSample(SumSeq(sizes.adjusted), events.start[1], events.total)

(***************************************************************************)
(* Claims about doMemcpy on groups of any shape (under SpecGroup).         *)
(***************************************************************************)
\* The timed copy of pair i has been issued in the trial: memcpyFunc has
\* returned adjustedCopySizes[i].
TimedIssued(i) ==
    \E k \in DOMAIN trial.queued[i] :
        IsCopy(trial.queued[i][k]) /\ trial.queued[i][k].phase = "timed"

\* C22 (as claimed): for every pair i of a group, whatever the capacities
\* of its pairs, the byte count used to fill and to verify pair i
\* (finalCopySize[i]) equals the byte count the timed copy of pair i
\* reports as moved (adjustedCopySizes[i]).
C22_FinalSizeIsMovedSize ==
    \A i \in Pairs : TimedIssued(i) => sizes.final[i] = sizes.adjusted[i]

\* The endpoint of pair i whose context the preference names, and the other.
PreferredNode(i) ==
    IF cfg.ctxPreference = "PREFER_SRC_CONTEXT" THEN cfg.nodes[cfg.src[i]]
    ELSE cfg.nodes[cfg.dst[i]]
OtherNode(i) ==
    IF cfg.ctxPreference = "PREFER_SRC_CONTEXT" THEN cfg.nodes[cfg.dst[i]]
    ELSE cfg.nodes[cfg.src[i]]

\* C23 (as claimed): for every pair with a device endpoint, and for either
\* context preference, doMemcpy selects a non-null context for the pair:
\* the preferred endpoint's context when it is non-null, otherwise the other
\* endpoint's; and the pair's stream is created in that context.
C23_ContextSelection ==
    host.pc # "setup" =>
        \A i \in Pairs :
            ("device" \in {cfg.nodes[cfg.src[i]].kind, cfg.nodes[cfg.dst[i]].kind}) =>
                /\ sizes.contexts[i] # NullCtx
                /\ sizes.contexts[i] =
                        IF getPrimaryCtx(PreferredNode(i)) # NullCtx
                        THEN getPrimaryCtx(PreferredNode(i))
                        ELSE getPrimaryCtx(OtherNode(i))
                /\ sizes.streamCtx[i] = sizes.contexts[i]

\* The bytes pair i's copy moves: what memcpyFunc reports for the pair's
\* own buffer size.
CopyRegion(i) == getAdjustedCopySize(cfg.nodes[cfg.src[i]].size)

\* Endpoint e holds the pattern of `seed' over its first `bytes' bytes.
HoldsPattern(e, seed, bytes) ==
    \A j \in 0..(bytes - 1) : j \in DOMAIN mem[e] /\ mem[e][j] = ExpectedByte(seed, j)

\* The pattern fill of the trial has finished and nothing has been queued.
FillFinished == host.pc = "launch" /\ host.i = 1

\* An endpoint of the group is the source of one pair and the destination
\* of a pair.
MixedRole == \E i, k \in Pairs : cfg.src[i] = cfg.dst[k]

\* C24 (as claimed): when the pattern fill of a trial has finished, and
\* before any copy executes, every destination endpoint holds the
\* destination pattern (seed 0xCAFEBABE) and every source endpoint the source
\* pattern (seed 0xBAADF00D) over its copy region, for any group, including
\* groups in which one endpoint appears in several pairs; the seeds differ.
C24_PatternsAfterFill ==
    /\ SeedDst # SeedSrc
    /\ FillFinished =>
            \A i \in Pairs :
                /\ HoldsPattern(cfg.dst[i], SeedDst, CopyRegion(i))
                /\ HoldsPattern(cfg.src[i], SeedSrc, CopyRegion(i))

\* The endpoints of pair i differ in capacity.
UnequalPair(i) == cfg.nodes[cfg.src[i]].size # cfg.nodes[cfg.dst[i]].size

\* C25 (as claimed): two endpoints are paired only if their capacities are
\* equal: doMemcpy fills no pattern and queues no copy, warmup or timed,
\* for a pair whose source and destination capacities differ; the capacity
\* check of a pair comes before every operation on the pair.
C25_CapacityCheckFirst ==
    \A i \in Pairs :
        UnequalPair(i) =>
            /\ i \notin trial.filled
            /\ \A k \in DOMAIN trial.queued[i] : ~IsCopy(trial.queued[i][k])

(***************************************************************************)
(* Specifications.                                                         *)
(***************************************************************************)
InitPattern ==
    PatInit /\ spin = SpinIdle /\ cp = CpIdle /\ peer = PeerIdle /\ drv = DrvIdle /\ OpIdle
InitSpin ==
    SpinInit /\ pat = PatIdle /\ cp = CpIdle /\ peer = PeerIdle /\ drv = DrvIdle /\ OpIdle
InitCopy ==
    CpInit /\ pat = PatIdle /\ spin = SpinIdle /\ peer = PeerIdle /\ drv = DrvIdle /\ OpIdle
InitPeer ==
    PeerInit /\ pat = PatIdle /\ spin = SpinIdle /\ cp = CpIdle /\ drv = DrvIdle /\ OpIdle
InitDriver ==
    DrvInit /\ pat = PatIdle /\ spin = SpinIdle /\ cp = CpIdle /\ peer = PeerIdle /\ OpIdle
Init ==
    OpInit /\ pat = PatIdle /\ spin = SpinIdle /\ cp = CpIdle /\ peer = PeerIdle /\ drv = DrvIdle
InitGroup ==
    /\ OpInitGroup /\ pat = PatIdle /\ spin = SpinIdle /\ cp = CpIdle
    /\ peer = PeerIdle /\ drv = DrvIdle

\* The runs of the fair specification: the copy-engine variant, one repeat
\* of the timed copy, verification on.
InitLive ==
    Init /\ cfg.variant = "CE" /\ cfg.loopCount = 1 /\ ~cfg.skipVerification

SpecPattern == InitPattern /\ [][PatNext]_vars
SpecSpin == InitSpin /\ [][SpinNext]_vars
SpecCopy == InitCopy /\ [][CpNext]_vars
SpecPeer == InitPeer /\ [][PeerNext]_vars
SpecDriver == InitDriver /\ [][DrvNext]_vars
Spec == Init /\ [][OpNext]_vars
SpecGroup == InitGroup /\ [][OpNext]_vars
SpecLive == InitLive /\ [][OpNext]_vars /\ Fairness

=============================================================================
